---- MODULE Spec2Model ----
(***************************************************************************)
(* A model of the seamless request router: the route registry (Api::add,   *)
(* Api::info), request dispatch (Api::handle), the normalized handler      *)
(* pipeline built by IntoHandler::into_handler, the body extractors, the   *)
(* response conversion and the capped body reader (CappedAsyncRead).       *)
(*                                                                         *)
(* Strings that the code inspects character by character (paths) are       *)
(* sequences of one-character strings; strings the code only compares or   *)
(* copies are TLA+ strings.                                                *)
(***************************************************************************)
EXTENDS Integers, Sequences, FiniteSets, TLC

VARIABLES
    base_path,   \* Api.base_path
    routes,      \* Api.routes: the set of stored entries (key = method, path)
    replaced,    \* history: some registration replaced a stored entry
    info,        \* <<v>>: Api::info returned v since the last registration
    active,      \* the request slots in use
    req,         \* per slot: the request given to Api::handle
    pc,          \* per slot: position of the handle future
    route,       \* per slot: the entry the request was dispatched to
    log,         \* per slot: the pipeline steps run so far, in order
    args,        \* per slot: the parameter values extracted so far
    ret,         \* per slot: the value returned by the handler function
    lookups,     \* per slot: lookups made in the route map for the request
    body_polls,  \* per slot: poll_read calls made on the request body
    result,      \* per slot: what Api::handle returned
    cap_max,     \* CappedAsyncRead: the type-level limit MAX
    cap_src,     \* CappedAsyncRead.inner: [total, left] bytes of the source
    bytes_read,  \* CappedAsyncRead.bytes_read
    cap_given,   \* the bytes the CappedAsyncRead has returned Ok for so far
    cap_last,    \* the result of the last poll_read on the wrapper
    rte,         \* the read_to_end future driving the wrapper
    err_item,    \* derive(ApiError): the declaration the macro is applied to
    err_impl,    \* derive(ApiError): the generated From impl, or the error
    err_val,     \* a value of the error type handed to into()
    err_api,     \* the ApiError that into() returned for it
    body_item,   \* ApiBody: the declaration the macro is applied to
    body_impl,   \* ApiBody: the generated api_body_info, or the error
    body_json,   \* the JSON a value of the derived enum serializes to
    body_again   \* <<v>>: a later call of api_body_info returned v

vars == <<base_path, routes, replaced, info, active, req, pc, route, log, args, ret,
          lookups, body_polls, result, cap_max, cap_src, bytes_read, cap_given,
          cap_last, rte,
          err_item, err_impl, err_val, err_api, body_item, body_impl,
          body_json, body_again>>

apiVars == <<base_path, routes, replaced, info, active, req, pc, route, log, args, ret,
             lookups, body_polls, result>>

slotVars == <<req, pc, route, log, args, ret, lookups, body_polls, result>>

capVars == <<cap_max, cap_src, bytes_read, cap_given, cap_last, rte>>

errVars == <<err_item, err_impl, err_val, err_api>>

bodyVars == <<body_item, body_impl, body_json, body_again>>

macroVars == <<errVars, bodyVars>>

-----------------------------------------------------------------------------
(* Bounds of the model *)

\* the most values of one derived error type that are converted
MaxConversions == 2
\* the most keys a map has whose iteration order is modelled
MaxKeys == 2
\* the most fields a derived record is given
MaxFields == 2
\* the most variants a derived union is given
MaxVariants == 3
\* the deepest chain of one-field wrappers around a type
MaxWrap == 2

\* registry entries held at once
MaxRoutes == 2
\* nesting depth of Option / Result around a handler's success value
MaxNest == 2
\* limit of the Capped body extractor used by the registered handlers
CapBytes == 2
\* largest limit MAX of a CappedAsyncRead under test
MaxCap == 3
\* largest number of bytes a source under a CappedAsyncRead delivers
MaxLen == 5
\* largest number of bytes one poll_read of the source returns
MaxChunk == 3

-----------------------------------------------------------------------------
(* Strings *)

\* the characters that occur in paths, in ascending byte order
CharOrder == <<"/", "a", "c", "e", "h", "i", "o", "p", "r", "t">>

Code(c) == CHOOSE i \in 1..Len(CharOrder) : CharOrder[i] = c

RECURSIVE TrimStartMatches(_)
TrimStartMatches(s) ==
    IF s # <<>> /\ Head(s) = "/" THEN TrimStartMatches(Tail(s)) ELSE s

RECURSIVE TrimEndMatches(_)
TrimEndMatches(s) ==
    IF s # <<>> /\ s[Len(s)] = "/"
    THEN TrimEndMatches(SubSeq(s, 1, Len(s) - 1))
    ELSE s

TrimMatches(s) == TrimEndMatches(TrimStartMatches(s))

StartsWith(s, p) == Len(p) <= Len(s) /\ SubSeq(s, 1, Len(p)) = p

\* &s[n..]
SliceFrom(s, n) == SubSeq(s, n + 1, Len(s))

\* Ord::cmp on strings: -1, 0 or 1
RECURSIVE StrCmp(_, _)
StrCmp(a, b) ==
    IF a = <<>> /\ b = <<>> THEN 0
    ELSE IF a = <<>> THEN -1
    ELSE IF b = <<>> THEN 1
    ELSE IF Code(Head(a)) < Code(Head(b)) THEN -1
    ELSE IF Code(Head(a)) > Code(Head(b)) THEN 1
    ELSE StrCmp(Tail(a), Tail(b))

-----------------------------------------------------------------------------
(* ApiError *)

ApiError(c, im, em) ==
    [code |-> c, internal_message |-> im, external_message |-> em,
     value |-> "None"]

SERVER_ERROR == "Internal server error"

server_error(msg) == ApiError(500, msg, SERVER_ERROR)

\* an absent optional reported as a server error
path_not_found_as_500 == server_error("Not found")

path_not_found == ApiError(404, "Not found", "Not found")

NoError == ApiError(0, "", "")

-----------------------------------------------------------------------------
(* Handler functions and their resolution (IntoHandler::into_handler) *)

\* ApiBody::api_body_info of the built-in types used by the handlers
ApiBodyInfoOf(t) ==
    CASE t = "String" -> [description |-> "", ty |-> "String"]
      [] t = "u64"    -> [description |-> "", ty |-> "Number"]
      [] t = "bool"   -> [description |-> "", ty |-> "Boolean"]
      [] t = "()"     -> [description |-> "", ty |-> "Null"]

\* A handler function: its parameter extractors in declared order, its body
\* extractor ("None" when the function takes no body), the limit of a Capped
\* wrapper around the body extractor (<<>> when not wrapped), and the types
\* of the request body and of the response.
HandlerFn(ps, b, c, i, o) ==
    [params |-> ps, body |-> b, cap |-> c, input |-> i, output |-> o]

Handlers ==
    { HandlerFn(<<>>, "None", <<>>, "()", "String"),
      HandlerFn(<<"State", "User">>, "None", <<>>, "()", "u64"),
      HandlerFn(<<"State", "User">>, "FromJson", <<>>, "String", "String"),
      HandlerFn(<<>>, "FromBinary", <<>>, "String", "u64"),
      HandlerFn(<<>>, "FromJson", <<CapBytes>>, "String", "String"),
      HandlerFn(<<"User">>, "PutBody", <<>>, "String", "bool"),
      HandlerFn(<<"Option<User>", "Result<User>", "State">>, "FromJson", <<>>,
                "String", "String") }

\* HandlerBody::handler_method: POST unless the implementation overrides it.
\* PutBody is a user extractor that overrides it; Capped does not forward
\* the wrapped extractor's method.
handler_method(h) ==
    IF h.cap # <<>> THEN "POST"
    ELSE IF h.body = "PutBody" THEN "PUT"
    ELSE "POST"

\* <Body as ApiBody>::api_body_info
body_api_body_info(h) ==
    IF h.body = "FromJson" THEN ApiBodyInfoOf(h.input)
    ELSE [description |-> "Binary data", ty |-> "String"]

\* every handler function resolved as if it took a body
into_handler_always_body(h) ==
    [method |-> handler_method(h),
     handler |-> h,
     request_type |-> body_api_body_info(h),
     response_type |-> ApiBodyInfoOf(h.output)]

into_handler(h) ==
    IF h.body = "None"
    THEN [method |-> "GET",
          handler |-> h,
          request_type |-> [description |-> "No request body is expected",
                            ty |-> "Null"],
          response_type |-> ApiBodyInfoOf(h.output)]
    ELSE [method |-> handler_method(h),
          handler |-> h,
          request_type |-> body_api_body_info(h),
          response_type |-> ApiBodyInfoOf(h.output)]

-----------------------------------------------------------------------------
(* The route registry: HashMap<(Method, String), ResolvedApiRoute> *)

\* an insert that keeps the entry already stored under the key
HashMapInsert_keep_old(m, k, v) == m \cup {[key |-> k, val |-> v]}

HashMapInsert(m, k, v) ==
    {e \in m : e.key # k} \cup {[key |-> k, val |-> v]}

\* Option<&V>: <<>> or <<v>>
HashMapGet(m, k) ==
    LET hits == {e \in m : e.key = k}
    IN  IF hits = {} THEN <<>> ELSE <<(CHOOSE e \in hits : TRUE).val>>

\* the orders in which iterating the map can yield its entries
HashMapIter(m) ==
    {s \in [1..Cardinality(m) -> m] :
        \A i, j \in 1..Cardinality(m) : i # j => s[i] # s[j]}

add_parts(rs, path, description, handler_fn) ==
    LET resolved_handler == into_handler(handler_fn)
        p == TrimMatches(path)
    IN  HashMapInsert(rs, <<resolved_handler.method, p>>,
                      [description |-> description,
                       resolved_handler |-> resolved_handler])

\* format!("{}", method)
MethodDisplay(m) == m

RouteInfoOf(e) ==
    [name          |-> e.key[2],
     method        |-> MethodDisplay(e.val.resolved_handler.method),
     description   |-> e.val.description,
     request_type  |-> e.val.resolved_handler.request_type,
     response_type |-> e.val.resolved_handler.response_type]

\* one step of the stable sort: x goes after every element not greater
InsertByName(sorted, x) ==
    LET k == Cardinality({i \in 1..Len(sorted) :
                            StrCmp(sorted[i].name, x.name) <= 0})
    IN  SubSeq(sorted, 1, k) \o <<x>> \o SubSeq(sorted, k + 1, Len(sorted))

\* the list left in the map's iteration order
SortByName_unsorted(s) == s

\* info.sort_by(|a,b| a.name.cmp(&b.name)): a stable sort
RECURSIVE SortByName(_)
SortByName(s) ==
    IF Len(s) = 0 THEN <<>>
    ELSE InsertByName(SortByName(SubSeq(s, 1, Len(s) - 1)), s[Len(s)])

\* Api::info for one iteration order of the map
info_of(order) ==
    SortByName([i \in 1..Len(order) |-> RouteInfoOf(order[i])])

-----------------------------------------------------------------------------
(* Reading a body: AsyncRead::poll_read, CappedAsyncRead, read_to_end *)

\* Poll<io::Result<usize>>
PollOk(n) == [kind |-> "Ok", n |-> n, err |-> ""]
PollErr(msg) == [kind |-> "Err", n |-> 0, err |-> msg]
PollPending == [kind |-> "Pending", n |-> 0, err |-> ""]

\* a CappedAsyncRead that fails as soon as the limit is reached
CappedPollRead_at_limit(count, max, inner) ==
    IF inner.kind = "Err" THEN [bytes_read |-> count, res |-> inner]
    ELSE IF inner.kind = "Pending" THEN [bytes_read |-> count, res |-> inner]
    ELSE LET total == count + inner.n
         IN  IF total >= max
             THEN [bytes_read |-> total, res |-> PollErr("Size limit exceeded")]
             ELSE [bytes_read |-> total, res |-> PollOk(inner.n)]

\* a CappedAsyncRead that leaves an overrunning read out of its counter
CappedPollRead_overrun_uncounted(count, max, inner) ==
    IF inner.kind = "Err" THEN [bytes_read |-> count, res |-> inner]
    ELSE IF inner.kind = "Pending" THEN [bytes_read |-> count, res |-> inner]
    ELSE IF count + inner.n > max
    THEN [bytes_read |-> count, res |-> PollErr("Size limit exceeded")]
    ELSE [bytes_read |-> count + inner.n, res |-> PollOk(inner.n)]

\* CappedAsyncRead::poll_read, given the counter and what the inner reader's
\* poll_read returned: the new counter and the wrapper's own result
CappedPollRead(count, max, inner) ==
    IF inner.kind = "Err" THEN [bytes_read |-> count, res |-> inner]
    ELSE IF inner.kind = "Pending" THEN [bytes_read |-> count, res |-> inner]
    ELSE LET total == count + inner.n
         IN  IF total > max
             THEN [bytes_read |-> total, res |-> PollErr("Size limit exceeded")]
             ELSE [bytes_read |-> total, res |-> PollOk(inner.n)]

\* a chunk of a body source that stands for a failed read of the source
Broken == 0 - 1

\* body.read_to_end(&mut buf) on a source that yields the given chunks (a
\* Broken one is a read that fails) and then end-of-stream, read directly
\* (cap = <<>>) or through a CappedAsyncRead of limit cap[1]
RECURSIVE ReadToEnd(_, _, _, _, _)
ReadToEnd(chunks, cap, count, got, polls) ==
    LET inner == IF chunks = <<>> THEN PollOk(0)
                 ELSE IF Head(chunks) = Broken THEN PollErr("connection reset")
                 ELSE PollOk(Head(chunks))
        w == IF cap = <<>>
             THEN [bytes_read |-> count, res |-> inner]
             ELSE CappedPollRead(count, cap[1], inner)
    IN  IF w.res.kind = "Err"
        THEN [ok |-> FALSE, n |-> got, err |-> w.res.err, polls |-> polls + 1]
        ELSE IF w.res.n = 0
        THEN [ok |-> TRUE, n |-> got, err |-> "", polls |-> polls + 1]
        ELSE ReadToEnd(Tail(chunks), cap, w.bytes_read, got + w.res.n,
                       polls + 1)

-----------------------------------------------------------------------------
(* Body extractors: HandlerBody::handler_body *)

\* serde_json::from_slice::<String> on the bodies of the model
from_slice(content) ==
    CASE content = "json string" -> [ok |-> TRUE, value |-> "hello", err |-> ""]
      [] content = "json number" ->
            [ok |-> FALSE, value |-> "",
             err |-> "invalid type: integer, expected a string at line 1 column 1"]
      [] content = "" ->
            [ok |-> FALSE, value |-> "",
             err |-> "EOF while parsing a value at line 1 column 0"]

\* str::to_ascii_lowercase on the header values of the model
to_ascii_lowercase(s) ==
    IF s = "Application/JSON" THEN "application/json" ELSE s

content_type_not_json_err ==
    ApiError(415, "Content-Type must be application/json",
                  "Content-Type must be application/json")

BodyOk(v, p) == [ok |-> TRUE, value |-> v, err |-> NoError, polls |-> p]
BodyErr(e, p) == [ok |-> FALSE, value |-> "", err |-> e, polls |-> p]

\* a FromJson that reads and parses whatever the Content-Type
FromJson_handler_body_any_type(rq, cap) ==
    LET rd == ReadToEnd(rq.body.chunks, cap, 0, 0, 0)
    IN  IF ~rd.ok THEN BodyErr(ApiError(400, rd.err, rd.err), rd.polls)
        ELSE LET json == from_slice(rq.body.content)
             IN  IF ~json.ok
                 THEN BodyErr(ApiError(400, json.err, json.err), rd.polls)
                 ELSE BodyOk(json.value, rd.polls)

\* a FromJson that reads the body before it looks at the Content-Type
FromJson_handler_body_reads_first(rq, cap) ==
    LET rd == ReadToEnd(rq.body.chunks, cap, 0, 0, 0)
    IN  IF ~rd.ok THEN BodyErr(ApiError(400, rd.err, rd.err), rd.polls)
        ELSE IF rq.content_type = <<>>
        THEN BodyErr(content_type_not_json_err, rd.polls)
        ELSE IF to_ascii_lowercase(rq.content_type[1]) # "application/json"
        THEN BodyErr(content_type_not_json_err, rd.polls)
        ELSE LET json == from_slice(rq.body.content)
             IN  IF ~json.ok
                 THEN BodyErr(ApiError(400, json.err, json.err), rd.polls)
                 ELSE BodyOk(json.value, rd.polls)

\* FromJson::handler_body on a request whose body is read under cap
FromJson_handler_body(rq, cap) ==
    IF rq.content_type = <<>> THEN BodyErr(content_type_not_json_err, 0)
    ELSE IF to_ascii_lowercase(rq.content_type[1]) # "application/json"
    THEN BodyErr(content_type_not_json_err, 0)
    ELSE LET rd == ReadToEnd(rq.body.chunks, cap, 0, 0, 0)
         IN  IF ~rd.ok THEN BodyErr(ApiError(400, rd.err, rd.err), rd.polls)
             ELSE LET json == from_slice(rq.body.content)
                  IN  IF ~json.ok
                      THEN BodyErr(ApiError(400, json.err, json.err), rd.polls)
                      ELSE BodyOk(json.value, rd.polls)

\* FromBinary::handler_body
FromBinary_handler_body(rq, cap) ==
    LET rd == ReadToEnd(rq.body.chunks, cap, 0, 0, 0)
    IN  IF ~rd.ok THEN BodyErr(ApiError(400, rd.err, rd.err), rd.polls)
        ELSE BodyOk(rq.body.content, rd.polls)

\* Body::handler_body for the handler's body extractor; Capped::handler_body
\* hands the wrapped extractor the body behind a CappedAsyncRead
handler_body(h, rq) ==
    IF h.body = "FromJson" THEN FromJson_handler_body(rq, h.cap)
    ELSE FromBinary_handler_body(rq, h.cap)

-----------------------------------------------------------------------------
(* Response conversion: HandlerResponse::handler_response *)

\* serde_json::to_vec of a string value: the value between quotes
to_json_vec(v) == <<"\"", v, "\"">>

\* the errors a handler function returns, and their Into<ApiError>
HandlerErrs == {"MathsError::DivideByZero"}

IntoApiError(e) ==
    CASE e = "MathsError::DivideByZero" ->
            ApiError(400, "Division by zero", "Division by zero")
      [] e = "" -> NoError

\* A handler's return value: the Option / Result constructors from the
\* outside in, ending in ToJson, None or Err, with the error of an Err
RECURSIVE NestTags(_)
NestTags(n) ==
    IF n = 0 THEN {<<"ToJson">>}
    ELSE NestTags(n - 1) \cup {<<"None">>, <<"Err">>}
         \cup {<<w>> \o t : w \in {"Some", "Ok"}, t \in NestTags(n - 1)}

RetVals ==
    {[tags |-> t, err |-> e, value |-> "hello"] :
        t \in {x \in NestTags(MaxNest) : x[Len(x)] = "Err"}, e \in HandlerErrs}
    \cup
    {[tags |-> t, err |-> "", value |-> "hello"] :
        t \in {x \in NestTags(MaxNest) : x[Len(x)] # "Err"}}

NoRet == [tags |-> <<>>, err |-> "", value |-> ""]

RespOk(r) == [ok |-> TRUE, response |-> <<r>>, err |-> NoError]
RespErr(e) == [ok |-> FALSE, response |-> <<>>, err |-> e]

RECURSIVE handler_response(_)
handler_response(rv) ==
    LET t == Head(rv.tags)
        inner == [rv EXCEPT !.tags = Tail(rv.tags)]
    IN  CASE t = "ToJson" ->
                RespOk([content_type |-> "application/json",
                        body |-> to_json_vec(rv.value)])
          [] t = "None" -> RespErr(path_not_found)
          [] t = "Some" -> handler_response(inner)
          [] t = "Err"  -> RespErr(IntoApiError(rv.err))
          [] t = "Ok"   -> handler_response(inner)

-----------------------------------------------------------------------------
(* Inputs *)

BasePaths == { <<"/", "a", "p", "i">>, <<>> }

\* "echo", "/echo/", "e"
RegPaths ==
    { <<"e", "c", "h", "o">>,
      <<"/", "e", "c", "h", "o", "/">>,
      <<"e">> }

Descriptions == {"Echo", "Echo back the JSON encoded string provided"}

\* "/api/echo", "/other/echo", "/apiecho", "/echo", "/api/e", "//api//echo"
ReqPaths ==
    { <<"/", "a", "p", "i", "/", "e", "c", "h", "o">>,
      <<"/", "o", "t", "h", "e", "r", "/", "e", "c", "h", "o">>,
      <<"/", "a", "p", "i", "e", "c", "h", "o">>,
      <<"/", "e", "c", "h", "o">>,
      <<"/", "a", "p", "i", "/", "e">>,
      <<"/", "/", "a", "p", "i", "/", "/", "e", "c", "h", "o">>,
      <<"/", "a", "p", "i", "/", "/", "e", "c", "h", "o", "/">> }

Methods == {"GET", "POST", "PUT"}

\* the paths and the description of the routes registered before serving
ServePaths == { <<"e", "c", "h", "o">>, <<"/", "e", "c", "h", "o", "/">> }

ServeDescriptions == {"Echo"}

\* a body source: the sizes of the chunks it yields and what the bytes hold
EmptyBody == [chunks |-> <<>>, content |-> ""]
StringBody == [chunks |-> <<CapBytes>>, content |-> "json string"]
NumberBody == [chunks |-> <<1>>, content |-> "json number"]
BigBody == [chunks |-> <<CapBytes, 1>>, content |-> "json string"]
BigNumberBody == [chunks |-> <<CapBytes, 1>>, content |-> "json number"]
BrokenBody == [chunks |-> <<1, Broken>>, content |-> "json number"]

\* the Content-Type header (absent: <<>>) and the body of a request
Payload(ct, b) == [content_type |-> ct, body |-> b]

Payloads ==
    { Payload(<<>>, EmptyBody),
      Payload(<<>>, StringBody),
      Payload(<<"text/plain">>, StringBody),
      Payload(<<"application/json">>, StringBody),
      Payload(<<"Application/JSON">>, StringBody),
      Payload(<<"application/json">>, NumberBody),
      Payload(<<"application/json">>, EmptyBody),
      Payload(<<"application/json; charset=utf-8">>, StringBody),
      Payload(<<"application/json">>, BigBody),
      Payload(<<"application/json">>, BigNumberBody),
      Payload(<<"application/json">>, BrokenBody) }

Requests ==
    { [method |-> m, path |-> p, content_type |-> x.content_type,
       body |-> x.body] : m \in Methods, p \in ReqPaths, x \in Payloads }

ReqIds == {1, 2}

-----------------------------------------------------------------------------
(* Api::handle: dispatch *)

\* RouteError / Ok, as returned by Api::handle
NoResult == [kind |-> "None", req |-> <<>>, err |-> NoError, response |-> <<>>]
\* a NotFound that hands back the request without its body
NotFound_body_taken(rq) ==
    [NoResult EXCEPT !.kind = "NotFound", !.req = <<[rq EXCEPT !.body = EmptyBody]>>]

NotFound(rq) == [NoResult EXCEPT !.kind = "NotFound", !.req = <<rq>>]
RouteErr(e) == [NoResult EXCEPT !.kind = "Err", !.err = e]
Ok(resp) == [NoResult EXCEPT !.kind = "Ok", !.response = resp]

\* a lookup that does not compare the request path with the base path
handle_lookup_any_prefix(bp, rs, rq) ==
    LET base == TrimStartMatches(bp)
        req_path == TrimStartMatches(rq.path)
        req_path_tail == TrimStartMatches(SliceFrom(req_path, Len(base)))
    IN  [lookups |-> 1, hit |-> HashMapGet(rs, <<rq.method, req_path_tail>>)]

\* the lookup of Api::handle: how many times the map was consulted, and the
\* route found
handle_lookup(bp, rs, rq) ==
    LET base == TrimStartMatches(bp)
        req_path == TrimStartMatches(rq.path)
    IN  IF StartsWith(req_path, base)
        THEN LET req_path_tail ==
                    TrimStartMatches(SliceFrom(req_path, Len(base)))
             IN  [lookups |-> 1,
                  hit |-> HashMapGet(rs, <<rq.method, req_path_tail>>)]
        ELSE [lookups |-> 0, hit |-> <<>>]

\* the step of the normalized handler that follows n parameter extractors
AfterParams(h, n) ==
    IF n < Len(h.params) THEN "param"
    ELSE IF h.body # "None" THEN "body"
    ELSE "call"

\* the error of a failed parameter extractor, as an ApiError
ParamError(p) == ApiError(403, p, "Not Authorized")

\* the parameter types: T, Option<T>, Result<T, T::Error>
ParamWrapper(p) ==
    IF p = "Option<User>" THEN "Option"
    ELSE IF p = "Result<User>" THEN "Result"
    ELSE ""

ParamInner(p) == IF ParamWrapper(p) = "" THEN p ELSE "User"

\* a value handed to the handler function for a parameter
ParamValue(kind, of, err) == [kind |-> kind, of |-> of, err |-> err]

ParamOk(v) == [ok |-> TRUE, value |-> v, err |-> NoError]
ParamErr(e) == [ok |-> FALSE, value |-> ParamValue("", "", NoError), err |-> e]

\* extractors whose wrappers hand the inner failure on
request_param_unwrapped(p, inner_ok) ==
    IF inner_ok THEN ParamOk(ParamValue("Value", ParamInner(p), NoError))
    ELSE ParamErr(ParamError(ParamInner(p)))

\* P::request_param(&req).await, where the extractor of the innermost type
\* succeeds or fails as inner_ok says
request_param(p, inner_ok) ==
    LET t == IF inner_ok
             THEN ParamOk(ParamValue("Value", ParamInner(p), NoError))
             ELSE ParamErr(ParamError(ParamInner(p)))
    IN  IF ParamWrapper(p) = "Option"
        THEN ParamOk(ParamValue(IF t.ok THEN "Some" ELSE "None", ParamInner(p), NoError))
        ELSE IF ParamWrapper(p) = "Result"
        THEN ParamOk(ParamValue(IF t.ok THEN "Ok" ELSE "Err", ParamInner(p), t.err))
        ELSE t

HandlerOf(r) == route[r][1].resolved_handler.handler

-----------------------------------------------------------------------------
(* The Api: state after construction, and its operations *)

\* no macro is being expanded
ErrIdle ==
    /\ err_item = <<>>
    /\ err_impl = <<>>
    /\ err_val = <<>>
    /\ err_api = <<>>

BodyIdle ==
    /\ body_item = <<>>
    /\ body_impl = <<>>
    /\ body_json = <<>>
    /\ body_again = <<>>

MacroIdle == ErrIdle /\ BodyIdle

\* no Api is serving and no reader is being read
ApiIdle ==
    /\ base_path = <<>>
    /\ routes = {}
    /\ replaced = FALSE
    /\ info = <<>>
    /\ active = {}
    /\ req = [r \in ReqIds |-> <<>>]
    /\ pc = [r \in ReqIds |-> "idle"]
    /\ route = [r \in ReqIds |-> <<>>]
    /\ log = [r \in ReqIds |-> <<>>]
    /\ args = [r \in ReqIds |-> <<>>]
    /\ ret = [r \in ReqIds |-> NoRet]
    /\ lookups = [r \in ReqIds |-> 0]
    /\ body_polls = [r \in ReqIds |-> 0]
    /\ result = [r \in ReqIds |-> NoResult]

CapIdle ==
    /\ cap_max = 0
    /\ cap_src = [total |-> 0, left |-> 0]
    /\ bytes_read = 0
    /\ cap_given = 0
    /\ cap_last = PollPending
    /\ rte = [state |-> "idle", got |-> 0, err |-> ""]

Init ==
    /\ base_path \in BasePaths
    /\ routes = {}
    /\ replaced = FALSE
    /\ info = <<>>
    /\ active = {1}
    /\ req = [r \in ReqIds |-> <<>>]
    /\ pc = [r \in ReqIds |-> "idle"]
    /\ route = [r \in ReqIds |-> <<>>]
    /\ log = [r \in ReqIds |-> <<>>]
    /\ args = [r \in ReqIds |-> <<>>]
    /\ ret = [r \in ReqIds |-> NoRet]
    /\ lookups = [r \in ReqIds |-> 0]
    /\ body_polls = [r \in ReqIds |-> 0]
    /\ result = [r \in ReqIds |-> NoResult]
    /\ cap_max = 0
    /\ cap_src = [total |-> 0, left |-> 0]
    /\ bytes_read = 0
    /\ cap_given = 0
    /\ cap_last = PollPending
    /\ rte = [state |-> "idle", got |-> 0, err |-> ""]
    /\ MacroIdle

\* api.add(path).description(description).handler(handler_fn). It needs
\* &mut Api, which no handle future may share; the Api registers its routes
\* before it serves its requests.
AddParts(path, description, handler_fn) ==
    /\ \A r \in ReqIds : pc[r] = "idle"
    /\ Cardinality(add_parts(routes, path, description, handler_fn)) <= MaxRoutes
    /\ routes' = add_parts(routes, path, description, handler_fn)
    /\ replaced' = (replaced \/ Cardinality(routes') < Cardinality(routes) + 1)
    /\ info' = <<>>
    /\ UNCHANGED <<base_path, active, slotVars, capVars, macroVars>>

\* api.info() on an Api built from the registrations made so far: the
\* HashMap hands its entries over in an order the program does not choose
\* (std's RandomState is seeded anew for every map)
Info ==
    /\ \E order \in HashMapIter(routes) : info' = <<info_of(order)>>
    /\ UNCHANGED <<base_path, routes, replaced, active, slotVars, capVars, macroVars>>

\* api.handle(rq), up to the call of the route's handler; a slot holds one
\* call of Api::handle
Handle(r, rq) ==
    /\ r \in active
    /\ pc[r] = "idle"
    /\ LET l == handle_lookup(base_path, routes, rq)
       IN  /\ lookups' = [lookups EXCEPT ![r] = l.lookups]
           /\ route' = [route EXCEPT ![r] = l.hit]
           /\ IF l.hit # <<>>
              THEN /\ pc' = [pc EXCEPT ![r] =
                                AfterParams(l.hit[1].resolved_handler.handler, 0)]
                   /\ result' = [result EXCEPT ![r] = NoResult]
              ELSE /\ pc' = [pc EXCEPT ![r] = "done"]
                   /\ result' = [result EXCEPT ![r] = NotFound(rq)]
    /\ req' = [req EXCEPT ![r] = <<rq>>]
    /\ log' = [log EXCEPT ![r] = <<>>]
    /\ args' = [args EXCEPT ![r] = <<>>]
    /\ ret' = [ret EXCEPT ![r] = NoRet]
    /\ body_polls' = [body_polls EXCEPT ![r] = 0]
    /\ UNCHANGED <<base_path, routes, replaced, info, active, capVars, macroVars>>

\* a parameter step that notes the error and goes on with the next step
ParamStep_goes_on(r) ==
    /\ pc[r] = "param"
    /\ LET h == HandlerOf(r)
           p == h.params[Len(log[r]) + 1]
       IN  /\ log' = [log EXCEPT ![r] = Append(@, p)]
           /\ pc' = [pc EXCEPT ![r] = AfterParams(h, Len(log[r]) + 1)]
           /\ \E inner_ok \in BOOLEAN :
                LET x == request_param(p, inner_ok)
                IN  /\ args' = [args EXCEPT ![r] = Append(@, x.value)]
                    /\ IF x.ok
                       THEN UNCHANGED result
                       ELSE result' = [result EXCEPT ![r] = RouteErr(x.err)]
    /\ UNCHANGED <<base_path, routes, replaced, info, active, req, route, ret, lookups,
                   body_polls, capVars, macroVars>>

\* $ctx::handler_param(&bodyless_req).await.map_err(..)?
ParamStep(r) ==
    /\ pc[r] = "param"
    /\ LET h == HandlerOf(r)
           p == h.params[Len(log[r]) + 1]
       IN  /\ log' = [log EXCEPT ![r] = Append(@, p)]
           /\ \E inner_ok \in BOOLEAN :
                LET x == request_param(p, inner_ok)
                IN  IF x.ok
                    THEN /\ pc' = [pc EXCEPT ![r] = AfterParams(h, Len(log[r]) + 1)]
                         /\ args' = [args EXCEPT ![r] = Append(@, x.value)]
                         /\ UNCHANGED result
                    ELSE /\ pc' = [pc EXCEPT ![r] = "done"]
                         /\ UNCHANGED args
                         /\ result' = [result EXCEPT ![r] = RouteErr(x.err)]
    /\ UNCHANGED <<base_path, routes, replaced, info, active, req, route, ret, lookups,
                   body_polls, capVars, macroVars>>

\* a body step that extracts from the request another slot is handling
BodyStep_shared(r) ==
    /\ pc[r] = "body"
    /\ \E q \in {x \in ReqIds : req[x] # <<>>} :
         LET b == handler_body(HandlerOf(r), req[q][1])
         IN  /\ log' = [log EXCEPT ![r] = Append(@, "body")]
             /\ body_polls' = [body_polls EXCEPT ![r] = b.polls]
             /\ IF b.ok
                THEN /\ pc' = [pc EXCEPT ![r] = "call"]
                     /\ UNCHANGED result
                ELSE /\ pc' = [pc EXCEPT ![r] = "done"]
                     /\ result' = [result EXCEPT ![r] = RouteErr(b.err)]
    /\ UNCHANGED <<base_path, routes, replaced, info, active, req, route, args, ret, lookups,
                   capVars, macroVars>>

\* Body::handler_body(req).await.map_err(..)?
BodyStep(r) ==
    /\ pc[r] = "body"
    /\ LET b == handler_body(HandlerOf(r), req[r][1])
       IN  /\ log' = [log EXCEPT ![r] = Append(@, "body")]
           /\ body_polls' = [body_polls EXCEPT ![r] = b.polls]
           /\ IF b.ok
              THEN /\ pc' = [pc EXCEPT ![r] = "call"]
                   /\ UNCHANGED result
              ELSE /\ pc' = [pc EXCEPT ![r] = "done"]
                   /\ result' = [result EXCEPT ![r] = RouteErr(b.err)]
    /\ UNCHANGED <<base_path, routes, replaced, info, active, req, route, args, ret, lookups,
                   capVars, macroVars>>

\* inner_handler($($ctx,)* body): the handler function returns some value
CallStep(r) ==
    /\ pc[r] = "call"
    /\ \E v \in RetVals : ret' = [ret EXCEPT ![r] = v]
    /\ log' = [log EXCEPT ![r] = Append(@, "fn")]
    /\ pc' = [pc EXCEPT ![r] = "respond"]
    /\ UNCHANGED <<base_path, routes, replaced, info, active, req, route, args, lookups,
                   body_polls, result, capVars, macroVars>>

\* .handler_response().await.map_err(..)?, then Ok(response); back in
\* Api::handle an error becomes RouteError::Err
RespondStep(r) ==
    /\ pc[r] = "respond"
    /\ LET hr == handler_response(ret[r])
       IN  result' = [result EXCEPT ![r] =
                        IF hr.ok THEN Ok(hr.response) ELSE RouteErr(hr.err)]
    /\ log' = [log EXCEPT ![r] = Append(@, "response")]
    /\ ret' = [ret EXCEPT ![r] = NoRet]
    /\ pc' = [pc EXCEPT ![r] = "done"]
    /\ UNCHANGED <<base_path, routes, replaced, info, active, req, route, args, lookups,
                   body_polls, capVars, macroVars>>

\* an Api that registers its routes and then serves requests
Next ==
    \/ \E p \in ServePaths, d \in ServeDescriptions, h \in Handlers :
          AddParts(p, d, h)
    \/ \E r \in ReqIds, rq \in Requests : Handle(r, rq)
    \/ \E r \in ReqIds : ParamStep(r)
    \/ \E r \in ReqIds : BodyStep(r)
    \/ \E r \in ReqIds : CallStep(r)
    \/ \E r \in ReqIds : RespondStep(r)

Spec == Init /\ [][Next]_vars

\* an Api whose routes are registered and listed
NextReg ==
    \/ \E p \in RegPaths, d \in Descriptions, h \in Handlers : AddParts(p, d, h)
    \/ Info

SpecReg == Init /\ [][NextReg]_vars

\* the requests sent to an Api that handles two at a time
ParRequests ==
    {rq \in Requests :
        /\ rq.method \in {"GET", "POST"}
        /\ rq.path \in {<<"/", "a", "p", "i", "/", "e", "c", "h", "o">>,
                         <<"/", "o", "t", "h", "e", "r", "/", "e", "c", "h", "o">>}
        /\ rq.body = StringBody
        /\ rq.content_type \in {<<"text/plain">>, <<"application/json">>}}

\* an Api with a GET and a POST route on "echo", shared by two handle futures
InitPar ==
    /\ base_path = <<"/", "a", "p", "i">>
    /\ routes = add_parts(add_parts({}, <<"e", "c", "h", "o">>, "Echo",
                                    HandlerFn(<<"State", "User">>, "FromJson", <<>>,
                                              "String", "String")),
                          <<"/", "e", "c", "h", "o", "/">>, "Echo",
                          HandlerFn(<<>>, "None", <<>>, "()", "String"))
    /\ replaced = FALSE
    /\ info = <<>>
    /\ active = ReqIds
    /\ req = [r \in ReqIds |-> <<>>]
    /\ pc = [r \in ReqIds |-> "idle"]
    /\ route = [r \in ReqIds |-> <<>>]
    /\ log = [r \in ReqIds |-> <<>>]
    /\ args = [r \in ReqIds |-> <<>>]
    /\ ret = [r \in ReqIds |-> NoRet]
    /\ lookups = [r \in ReqIds |-> 0]
    /\ body_polls = [r \in ReqIds |-> 0]
    /\ result = [r \in ReqIds |-> NoResult]
    /\ CapIdle
    /\ MacroIdle

\* the futures of the requests are polled in any order; &self is all they
\* and Api::info hold of the Api
NextPar ==
    \/ \E r \in ReqIds, rq \in ParRequests : Handle(r, rq)
    \/ \E r \in ReqIds : ParamStep(r)
    \/ \E r \in ReqIds : BodyStep(r)
    \/ \E r \in ReqIds : CallStep(r)
    \/ \E r \in ReqIds : RespondStep(r)
    \/ Info

SpecPar == InitPar /\ [][NextPar]_vars

-----------------------------------------------------------------------------
(* A CappedAsyncRead over a source, read to the end by read_to_end *)

Min(a, b) == IF a < b THEN a ELSE b

\* read_to_end after one more poll_read of the wrapper returned res: it goes
\* on after Pending and after data, ends Ok at a read of 0 bytes and ends
\* with the error of a failed read
read_to_end_step(f, res) ==
    IF f.state # "reading" THEN f
    ELSE IF res.kind = "Pending" THEN f
    ELSE IF res.kind = "Err" THEN [f EXCEPT !.state = "err", !.err = res.err]
    ELSE IF res.n = 0 THEN [f EXCEPT !.state = "ok"]
    ELSE [f EXCEPT !.got = @ + res.n]

\* CappedAsyncRead::<_, MAX>::new(source), for every limit and every source
InitCap ==
    /\ base_path = <<>>
    /\ routes = {}
    /\ replaced = FALSE
    /\ info = <<>>
    /\ active = {}
    /\ req = [r \in ReqIds |-> <<>>]
    /\ pc = [r \in ReqIds |-> "idle"]
    /\ route = [r \in ReqIds |-> <<>>]
    /\ log = [r \in ReqIds |-> <<>>]
    /\ args = [r \in ReqIds |-> <<>>]
    /\ ret = [r \in ReqIds |-> NoRet]
    /\ lookups = [r \in ReqIds |-> 0]
    /\ body_polls = [r \in ReqIds |-> 0]
    /\ result = [r \in ReqIds |-> NoResult]
    /\ cap_max \in 0..MaxCap
    /\ \E n \in 0..MaxLen : cap_src = [total |-> n, left |-> n]
    /\ bytes_read = 0
    /\ cap_given = 0
    /\ cap_last = PollPending
    /\ rte = [state |-> "reading", got |-> 0, err |-> ""]
    /\ MacroIdle

\* one poll_read of the wrapper during which the inner reader returns inner,
\* having consumed taken bytes of the source
CapPoll(inner, taken) ==
    LET w == CappedPollRead(bytes_read, cap_max, inner)
    IN  /\ bytes_read' = w.bytes_read
        /\ cap_given' = cap_given + (IF w.res.kind = "Ok" THEN w.res.n ELSE 0)
        /\ cap_last' = w.res
        /\ rte' = read_to_end_step(rte, w.res)
        /\ cap_src' = [cap_src EXCEPT !.left = @ - taken]
        /\ UNCHANGED <<cap_max, apiVars, macroVars>>

\* the source has data: the inner read returns some of it
PollData ==
    /\ cap_src.left > 0
    /\ \E n \in 1..Min(cap_src.left, MaxChunk) : CapPoll(PollOk(n), n)

\* the source is at its end: the inner read returns 0 bytes
PollEof ==
    /\ cap_src.left = 0
    /\ CapPoll(PollOk(0), 0)

\* the source has nothing ready yet
PollWait == CapPoll(PollPending, 0)

\* the source fails
PollFail == CapPoll(PollErr("connection reset"), 0)

NextCap == PollData \/ PollEof \/ PollWait \/ PollFail

SpecCap == InitCap /\ [][NextCap]_vars

-----------------------------------------------------------------------------
(* derive(ApiError): the attributes, the generated From impl, its use *)

\* u16::MAX, the largest code base10_parse::<u16> accepts
U16Max == 65535

\* what ApiErrorAttrs::parse collected from the #[api_error(..)] attributes
\* of one item: which of internal / external / inner were written, the
\* literal of external = "..", the literal of code = ..
RawAttrs ==
    [internal_tok : BOOLEAN, external_tok : BOOLEAN, inner_tok : BOOLEAN,
     external_message : {<<>>, <<"Whoops!">>},
     code : {<<>>, <<401>>, <<U16Max + 1>>}]

Attrs(internal, external, inner, msg, code) ==
    [internal_tok |-> internal, external_tok |-> external, inner_tok |-> inner,
     external_message |-> msg, code |-> code]

NoAttrs == Attrs(FALSE, FALSE, FALSE, <<>>, <<>>)

AttrsOk(a) == [ok |-> TRUE, attrs |-> a, err |-> ""]
AttrsErr(msg) == [ok |-> FALSE, attrs |-> NoAttrs, err |-> msg]

\* the checks at the end of ApiErrorAttrs::parse; the first of them builds
\* its error from external_tok.unwrap(), which panics when external is absent
ApiErrorAttrs_parse(raw) ==
    IF raw.inner_tok /\ ( raw.external_tok \/ raw.external_message # <<>>
                          \/ raw.internal_tok \/ raw.code # <<>> )
    THEN IF raw.external_tok
         THEN AttrsErr("'inner' does not make sense alongside any other attributes")
         ELSE AttrsErr("proc-macro derive panicked: called Option::unwrap() on a None value")
    ELSE IF raw.external_tok /\ raw.internal_tok
    THEN AttrsErr("'internal' and 'external' can't be declared together")
    ELSE IF raw.external_tok /\ raw.external_message # <<>>
    THEN AttrsErr("'external' and 'external = \"foo\"' can't be declared together")
    ELSE AttrsOk(raw)

FinalApiErrorAttrs(msg, code, delegate) ==
    [external_message |-> msg, code |-> code, delegate_to_child |-> delegate]

FinalOk(f) == [ok |-> TRUE, attrs |-> f, err |-> ""]
FinalErr(msg) ==
    [ok |-> FALSE, attrs |-> FinalApiErrorAttrs(<<>>, 0, FALSE), err |-> msg]

\* parse_str in finalise
parse_str(s) == IF s = <<>> THEN "Internal server error" ELSE s[1]

\* an inner attribute that dropped everything but itself
ApiErrorAttrs_finalise_inner_keeps(self) ==
    LET lit == IF self.code = <<>> THEN 500 ELSE self.code[1]
    IN  IF lit > U16Max
        THEN FinalErr("number too large to fit in target type")
        ELSE IF self.external_tok /\ self.external_message # <<>>
        THEN FinalErr("'external' and 'external = \"foo\"' shouldn't both be provided")
        ELSE IF self.internal_tok \/ self.external_message # <<>>
        THEN FinalOk(FinalApiErrorAttrs(<<parse_str(self.external_message)>>, lit, FALSE))
        ELSE IF self.external_tok
        THEN FinalOk(FinalApiErrorAttrs(<<>>, lit, FALSE))
        ELSE FinalOk(FinalApiErrorAttrs(<<>>, 0, TRUE))

\* a finalise whose internal branch takes the rendering as external message
ApiErrorAttrs_finalise_shows_internal(self) ==
    LET lit == IF self.code = <<>> THEN 500 ELSE self.code[1]
        a == IF self.inner_tok THEN [NoAttrs EXCEPT !.inner_tok = TRUE] ELSE self
    IN  IF lit > U16Max
        THEN FinalErr("number too large to fit in target type")
        ELSE IF a.external_tok /\ a.external_message # <<>>
        THEN FinalErr("'external' and 'external = \"foo\"' shouldn't both be provided")
        ELSE IF a.internal_tok \/ a.external_message # <<>>
        THEN FinalOk(FinalApiErrorAttrs(a.external_message, lit, FALSE))
        ELSE IF a.external_tok
        THEN FinalOk(FinalApiErrorAttrs(<<>>, lit, FALSE))
        ELSE FinalOk(FinalApiErrorAttrs(<<>>, 0, TRUE))

\* a finalise whose external branch falls back to the default message
ApiErrorAttrs_finalise_hides_external(self) ==
    LET lit == IF self.code = <<>> THEN 500 ELSE self.code[1]
        a == IF self.inner_tok THEN [NoAttrs EXCEPT !.inner_tok = TRUE] ELSE self
    IN  IF lit > U16Max
        THEN FinalErr("number too large to fit in target type")
        ELSE IF a.external_tok /\ a.external_message # <<>>
        THEN FinalErr("'external' and 'external = \"foo\"' shouldn't both be provided")
        ELSE IF a.internal_tok \/ a.external_message # <<>> \/ a.external_tok
        THEN FinalOk(FinalApiErrorAttrs(<<parse_str(a.external_message)>>, lit, FALSE))
        ELSE FinalOk(FinalApiErrorAttrs(<<>>, 0, TRUE))

\* a finalise for which a code alone makes the item an external error
ApiErrorAttrs_finalise_code_counts(self) ==
    LET lit == IF self.code = <<>> THEN 500 ELSE self.code[1]
        a == IF self.inner_tok THEN [NoAttrs EXCEPT !.inner_tok = TRUE] ELSE self
    IN  IF lit > U16Max
        THEN FinalErr("number too large to fit in target type")
        ELSE IF a.external_tok /\ a.external_message # <<>>
        THEN FinalErr("'external' and 'external = \"foo\"' shouldn't both be provided")
        ELSE IF a.internal_tok \/ a.external_message # <<>>
        THEN FinalOk(FinalApiErrorAttrs(<<parse_str(a.external_message)>>, lit, FALSE))
        ELSE IF a.external_tok \/ a.code # <<>>
        THEN FinalOk(FinalApiErrorAttrs(<<>>, lit, FALSE))
        ELSE FinalOk(FinalApiErrorAttrs(<<>>, 0, TRUE))

\* ApiErrorAttrs::finalise: the code literal is parsed first, then inner
\* clears the other attributes, then the branch is chosen
ApiErrorAttrs_finalise(self) ==
    LET lit == IF self.code = <<>> THEN 500 ELSE self.code[1]
        a == IF self.inner_tok THEN [NoAttrs EXCEPT !.inner_tok = TRUE] ELSE self
    IN  IF lit > U16Max
        THEN FinalErr("number too large to fit in target type")
        ELSE IF a.external_tok /\ a.external_message # <<>>
        THEN FinalErr("'external' and 'external = \"foo\"' shouldn't both be provided")
        ELSE IF a.internal_tok \/ a.external_message # <<>>
        THEN FinalOk(FinalApiErrorAttrs(<<parse_str(a.external_message)>>, lit, FALSE))
        ELSE IF a.external_tok
        THEN FinalOk(FinalApiErrorAttrs(<<>>, lit, FALSE))
        ELSE FinalOk(FinalApiErrorAttrs(<<>>, 0, TRUE))

\* a merge that fills each missing attribute from the parent on its own
ApiErrorAttrs_finalise_with_parent_attrs_each(self, parent) ==
    IF parent.inner_tok
    THEN FinalErr("This is not allowed at the top level of an enum, only specific fields")
    ELSE ApiErrorAttrs_finalise(
            [self EXCEPT
                !.external_tok = self.external_tok \/ parent.external_tok,
                !.internal_tok = self.internal_tok \/ parent.internal_tok,
                !.external_message = IF self.external_message = <<>>
                                     THEN parent.external_message
                                     ELSE self.external_message,
                !.code = IF self.code = <<>> THEN parent.code ELSE self.code])

\* ApiErrorAttrs::finalise_with_parent_attrs
ApiErrorAttrs_finalise_with_parent_attrs(self, parent) ==
    IF parent.inner_tok
    THEN FinalErr("This is not allowed at the top level of an enum, only specific fields")
    ELSE LET a == IF /\ ~self.external_tok
                    /\ ~self.internal_tok
                    /\ self.external_message = <<>>
                 THEN [self EXCEPT !.external_tok = parent.external_tok,
                                   !.internal_tok = parent.internal_tok,
                                   !.external_message = parent.external_message]
                 ELSE self
             b == IF a.code = <<>> THEN [a EXCEPT !.code = parent.code] ELSE a
         IN  ApiErrorAttrs_finalise(b)

\* syn::Fields of a struct or a variant: its shape, the number of unnamed
\* fields, and the type of the first unnamed field when that is an error type
ErrFields(shape, n, ty) == [shape |-> shape, n |-> n, ty |-> ty]

UnitFields == ErrFields("Unit", 0, <<>>)
NamedFields == ErrFields("Named", 0, <<>>)
TupleFields(n) == ErrFields("Unnamed", n, <<>>)
Wrapping(item) == ErrFields("Unnamed", 1, <<item>>)

\* one_unnamed_field: "" for Ok(()), or the message of the error
one_unnamed_field(fields) ==
    IF fields.shape # "Unnamed"
    THEN "One of '#[api_error(internal)]' or '#[api_error(external)]' or '#[api_error(external = \"foo\")]' is required (1)"
    ELSE IF fields.n # 1
    THEN "One of '#[api_error(internal)]' or '#[api_error(external)]' or '#[api_error(external = \"foo\")]' is required (2)"
    ELSE ""

ErrStruct(attrs, generics, fields) ==
    [kind |-> "struct", attrs |-> attrs, generics |-> generics,
     fields |-> fields, variants |-> <<>>]

ErrVariant(attrs, fields) == [attrs |-> attrs, fields |-> fields]

ErrEnum(attrs, variants) ==
    [kind |-> "enum", attrs |-> attrs, generics |-> FALSE,
     fields |-> UnitFields, variants |-> variants]

\* one arm of the generated match (the struct impl is the single arm 0):
\* either it hands the wrapped value to into(), or it builds the ApiError
DelegateArm(i) ==
    [variant |-> i, inner |-> TRUE, code |-> 0, external_message |-> <<>>]

ApiErrorArm(i, f) ==
    [variant |-> i, inner |-> FALSE, code |-> f.code,
     external_message |-> f.external_message]

ImplOk(arms) == [ok |-> TRUE, arms |-> arms, err |-> ""]
ImplErr(msg) == [ok |-> FALSE, arms |-> <<>>, err |-> msg]

\* error::parse_struct
error_parse_struct(s) ==
    LET a == ApiErrorAttrs_parse(s.attrs)
    IN  IF ~a.ok THEN ImplErr(a.err)
        ELSE LET f == ApiErrorAttrs_finalise(a.attrs)
             IN  IF ~f.ok THEN ImplErr(f.err)
                 ELSE IF f.attrs.delegate_to_child
                 THEN IF one_unnamed_field(s.fields) # ""
                      THEN ImplErr(one_unnamed_field(s.fields))
                      ELSE ImplOk(<<DelegateArm(0)>>)
                 ELSE IF s.generics
                 THEN ImplErr("ApiError: Generics are not currently supported")
                 ELSE ImplOk(<<ApiErrorArm(0, f.attrs)>>)

\* the body of the loop over the variants in error::parse_enum: a
\* delegating variant gets its `inner => inner.into()` arm and then, as
\* every variant, the arm that builds an ApiError
variant_arms(v, top, i) ==
    LET a == ApiErrorAttrs_parse(v.attrs)
    IN  IF ~a.ok THEN ImplErr(a.err)
        ELSE LET f == ApiErrorAttrs_finalise_with_parent_attrs(a.attrs, top)
             IN  IF ~f.ok THEN ImplErr(f.err)
                 ELSE IF f.attrs.delegate_to_child
                 THEN IF one_unnamed_field(v.fields) # ""
                      THEN ImplErr(one_unnamed_field(v.fields))
                      ELSE ImplOk(<<DelegateArm(i), ApiErrorArm(i, f.attrs)>>)
                 ELSE ImplOk(<<ApiErrorArm(i, f.attrs)>>)

RECURSIVE enum_items(_, _, _, _)
enum_items(variants, top, i, acc) ==
    IF i > Len(variants) THEN ImplOk(acc)
    ELSE LET arms == variant_arms(variants[i], top, i)
         IN  IF ~arms.ok THEN arms
             ELSE enum_items(variants, top, i + 1, acc \o arms.arms)

\* a parse_enum that accepts an enum without variants
error_parse_enum_allows_empty(e) ==
    LET top == ApiErrorAttrs_parse(e.attrs)
    IN  IF ~top.ok THEN ImplErr(top.err)
        ELSE enum_items(e.variants, top.attrs, 1, <<>>)

\* error::parse_enum
error_parse_enum(e) ==
    LET top == ApiErrorAttrs_parse(e.attrs)
    IN  IF ~top.ok THEN ImplErr(top.err)
        ELSE IF e.variants = <<>>
        THEN ImplErr("ApiError: Enums without variants are not supported")
        ELSE enum_items(e.variants, top.attrs, 1, <<>>)

\* derive_error
derive_error(item) ==
    IF item.kind = "struct" THEN error_parse_struct(item)
    ELSE error_parse_enum(item)

\* the fields of the struct, or of variant i of the enum
FieldsOf(item, i) ==
    IF item.kind = "struct" THEN item.fields ELSE item.variants[i].fields

\* the first arm of the match that the value's variant matches
FirstArm(arms, i) ==
    arms[CHOOSE k \in 1..Len(arms) :
            /\ arms[k].variant = i
            /\ \A j \in 1..(k - 1) : arms[j].variant # i]

\* a value of an error type: its variant (0 for a struct), the text its
\* Display impl renders, and the wrapped value if the type wraps one
ErrValue(i, text, inner) == [variant |-> i, text |-> text, inner |-> inner]

RECURSIVE run_impl(_, _, _)

\* a conversion that hands the rendering out as the external message
run_impl_leaks(impl, item, v) ==
    LET arm == FirstArm(impl.arms, v.variant)
    IN  IF arm.inner
        THEN LET ty == FieldsOf(item, v.variant).ty[1]
             IN  run_impl(derive_error(ty), ty, v.inner[1])
        ELSE ApiError(arm.code, v.text, v.text)

\* From<T> for ApiError as generated: the matching arm is run; a
\* delegating arm calls into() on the wrapped value
run_impl(impl, item, v) ==
    LET arm == FirstArm(impl.arms, v.variant)
    IN  IF arm.inner
        THEN LET ty == FieldsOf(item, v.variant).ty[1]
             IN  run_impl(derive_error(ty), ty, v.inner[1])
        ELSE ApiError(arm.code, v.text,
                      IF arm.external_message = <<>> THEN v.text
                      ELSE arm.external_message[1])

\* what Display renders
Renderings == {"bad", "bar"}

\* the error types used as the wrapped value of another
Bar == ErrStruct(Attrs(FALSE, TRUE, FALSE, <<>>, <<>>), FALSE, UnitFields)
Baz == ErrStruct(Attrs(TRUE, FALSE, FALSE, <<>>, <<401>>), FALSE, NamedFields)
WrapBar == ErrStruct(NoAttrs, FALSE, Wrapping(Bar))

WrappedTypes == {Bar, Baz, WrapBar}

FieldShapes ==
    {UnitFields, NamedFields, TupleFields(0), TupleFields(2)}
    \cup {Wrapping(t) : t \in WrappedTypes}

ErrStructs ==
    {ErrStruct(a, g, f) : a \in RawAttrs, g \in BOOLEAN, f \in FieldShapes}

\* the attributes tried at the top of an enum
ParentAttrs ==
    { NoAttrs,
      Attrs(TRUE, FALSE, FALSE, <<>>, <<>>),
      Attrs(FALSE, TRUE, FALSE, <<>>, <<>>),
      Attrs(FALSE, FALSE, FALSE, <<"Hidden">>, <<>>),
      Attrs(FALSE, FALSE, FALSE, <<>>, <<404>>),
      Attrs(TRUE, FALSE, FALSE, <<"Hidden">>, <<404>>),
      Attrs(FALSE, TRUE, FALSE, <<>>, <<U16Max + 1>>),
      Attrs(FALSE, FALSE, TRUE, <<>>, <<>>),
      Attrs(TRUE, TRUE, FALSE, <<>>, <<>>) }

VariantShapes == {UnitFields, NamedFields, Wrapping(Bar), TupleFields(2)}

\* the variants declared next to the one under study
OtherVariants ==
    { <<>>,
      <<ErrVariant(Attrs(TRUE, FALSE, FALSE, <<>>, <<>>), UnitFields)>>,
      <<ErrVariant(Attrs(TRUE, TRUE, FALSE, <<>>, <<>>), UnitFields)>> }

ErrEnums ==
    {ErrEnum(p, <<>>) : p \in ParentAttrs}
    \cup {ErrEnum(p, <<ErrVariant(a, f)>> \o o) :
             p \in ParentAttrs, a \in RawAttrs, f \in VariantShapes,
             o \in OtherVariants}
    \cup {ErrEnum(p, o \o <<ErrVariant(a, UnitFields)>>) :
             p \in ParentAttrs, a \in RawAttrs, o \in OtherVariants \ {<<>>}}

ErrItems == ErrStructs \cup ErrEnums

\* the values of a wrapped type
RECURSIVE ErrValues(_)
ErrValues(item) ==
    LET idx == IF item.kind = "struct" THEN {0} ELSE 1..Len(item.variants)
    IN  UNION { LET ty == FieldsOf(item, i).ty
                IN  IF ty = <<>>
                    THEN {ErrValue(i, t, <<>>) : t \in Renderings}
                    ELSE {ErrValue(i, t, <<w>>) :
                             t \in Renderings, w \in ErrValues(ty[1])}
              : i \in idx }

\* #[derive(ApiError)] is written on some struct or enum
InitErr ==
    /\ ApiIdle
    /\ CapIdle
    /\ BodyIdle
    /\ \E item \in ErrItems : err_item = <<item>>
    /\ err_impl = <<>>
    /\ err_val = <<>>
    /\ err_api = <<>>

\* the compiler expands the derive
DeriveError ==
    /\ err_item # <<>>
    /\ err_impl = <<>>
    /\ err_impl' = <<derive_error(err_item[1])>>
    /\ UNCHANGED <<err_item, err_val, err_api, apiVars, capVars, bodyVars>>

\* some value of the type is converted: value.into()
IntoApiErrorStep ==
    /\ err_impl # <<>>
    /\ err_impl[1].ok
    /\ Len(err_val) < MaxConversions
    /\ \E v \in ErrValues(err_item[1]) :
          /\ err_val' = Append(err_val, v)
          /\ err_api' = Append(err_api, run_impl(err_impl[1], err_item[1], v))
    /\ UNCHANGED <<err_item, err_impl, apiVars, capVars, bodyVars>>

NextErr == DeriveError \/ IntoApiErrorStep

SpecErr == InitErr /\ [][NextErr]_vars

-----------------------------------------------------------------------------
(* #[ApiBody]: the attributes, the derived ApiBodyInfo, the serde tag *)

VARIANT_DESCRIPTION == "Variant tag"

\* attrs::Props, and whether a serde attribute stands among the attributes
Props(docs, tag, flatten, serde) ==
    [docs |-> docs, tag |-> tag, flatten |-> flatten, serde |-> serde]

Docs(d) == Props(d, <<>>, FALSE, FALSE)

\* attrs::parse: "" for Ok(props), or the message of the error
body_attrs_parse(a) ==
    IF a.serde THEN "serde attributes not allowed; ApiBody macro handles that"
    ELSE ""

ApiBodyInfo(description, ty) == [description |-> description, ty |-> ty]

\* ApiBodyType
BodyType(t) ==
    [type |-> t, literal |-> "", keys |-> {}, values |-> <<>>, value |-> <<>>]
\* the three with a boxed value: ArrayOf, ObjectOf, Optional
BoxedType(t, value) == [BodyType(t) EXCEPT !.value = <<value>>]
StringLiteral(l) == [BodyType("StringLiteral") EXCEPT !.literal = l]
Object(keys) == [BodyType("Object") EXCEPT !.keys = keys]
OneOf(values) == [BodyType("OneOf") EXCEPT !.values = values]
TupleOf(values) == [BodyType("TupleOf") EXCEPT !.values = values]

\* a type a field can have: a primitive or a container with its impl in the
\* crate, or a struct or enum under #[ApiBody]
BodyTy(kind, name, attrs, fields, variants) ==
    [kind |-> kind, name |-> name, attrs |-> attrs, fields |-> fields,
     variants |-> variants]

BodyFields(shape, list) == [shape |-> shape, list |-> list]

BodyField(name, attrs, ty) == [name |-> name, attrs |-> attrs, ty |-> ty]

BodyVariant(name, attrs, fields) ==
    [name |-> name, attrs |-> attrs, fields |-> fields]

PrimTy(name) ==
    BodyTy("prim", name, Docs(""), BodyFields("Unit", <<>>), <<>>)

\* Vec<T>, HashMap<String, T>, Option<T>, Box<T> and the tuples: the type
\* parameters stand where a struct has its fields
ContainerTy(kind, params) ==
    BodyTy(kind, "", Docs(""),
           BodyFields("Unnamed", [i \in 1..Len(params) |-> BodyField("", Docs(""), params[i])]),
           <<>>)

BodyStruct(attrs, fields) == BodyTy("struct", "", attrs, fields, <<>>)

BodyEnum(attrs, variants) ==
    BodyTy("enum", "", attrs, BodyFields("Unit", <<>>), variants)

\* what the macro gave and what the generated code evaluates to: the
\* #[serde(tag = ..)] it wrote, ApiBody::api_body_info(), and
\* ApiBodyStruct::api_body_struct_info() where that is implemented
Derived(tag, api_body_info, sinfo) ==
    [ok |-> TRUE, err |-> "", serde_tag_attr |-> tag, info |-> api_body_info,
     struct_info |-> sinfo]

NotDerived(msg) ==
    [ok |-> FALSE, err |-> msg, serde_tag_attr |-> <<>>,
     info |-> ApiBodyInfo("", BodyType("Null")), struct_info |-> <<>>]

ApiBodyStructInfo(description, struc) ==
    [description |-> description, struc |-> struc]

\* a classification that takes a unit record for one with named fields
FieldsKind_unit_as_named(fields) ==
    IF fields.shape = "Unnamed"
    THEN IF Len(fields.list) = 1 THEN "Single" ELSE "Unnamed"
    ELSE "Named"

\* Fields::from_syn: one unnamed field is Single
FieldsKind(fields) ==
    IF fields.shape = "Unnamed"
    THEN IF Len(fields.list) = 1 THEN "Single" ELSE "Unnamed"
    ELSE fields.shape

\* process_fields: "" or the error of the first field whose attributes fail
process_fields(fields) ==
    IF \E i \in 1..Len(fields.list) : body_attrs_parse(fields.list[i].attrs) # ""
    THEN "serde attributes not allowed; ApiBody macro handles that"
    ELSE ""

\* std's RandomState, by what it decides here: the order in which a map
\* hands over its entries, a permutation of as many places as a map has keys
RandomStates ==
    {p \in [1..MaxKeys -> 1..MaxKeys] :
        \A i, j \in 1..MaxKeys : i # j => p[i] # p[j]}

\* s.struc.into_iter() under the state rs
into_iter(rs, struc) ==
    LET n == Cardinality(struc)
        some == CHOOSE o \in HashMapIter(struc) : TRUE
        places == SelectSeq(rs, LAMBDA x : x <= n)
    IN  IF n > MaxKeys THEN some ELSE [i \in 1..n |-> some[places[i]]]

\* a flattened record whose keys give way to the keys already there
InsertAll_keeps_old(m, order) ==
    m \cup {order[i] : i \in {k \in 1..Len(order) : \A e \in m : e.key # order[k].key}}

\* a loop that is left after the first entry
InsertAll_first_only(m, order) ==
    IF order = <<>> THEN m ELSE HashMapInsert(m, order[1].key, order[1].val)

\* for (key, val) in s.struc.into_iter() { m.insert(key, val); }
RECURSIVE InsertAll(_, _)
InsertAll(m, order) ==
    IF order = <<>> THEN m
    ELSE InsertAll(HashMapInsert(m, Head(order).key, Head(order).val), Tail(order))

\* a check that only refuses a unit variant after a non-unit one
unit_and_nonunit_mixed_one_way(kind, seen_unit_fields, seen_nonunit_fields) ==
    kind = "Unit" /\ seen_nonunit_fields

\* parse_enum: whether the variant of this kind meets one of the other sort
unit_and_nonunit_mixed(kind, seen_unit_fields, seen_nonunit_fields) ==
    IF kind = "Unit" THEN seen_nonunit_fields ELSE seen_unit_fields

\* a union that is tagged whatever its variants are
serde_tag_attr_always(seen_nonunit_fields, serde_tag) == <<serde_tag>>

\* parse_enum: #[serde(tag = ..)] is written when a variant has fields
serde_tag_attr(seen_nonunit_fields, serde_tag) ==
    IF seen_nonunit_fields THEN <<serde_tag>> ELSE <<>>

RECURSIVE ApiBodyOf(_, _)
RECURSIVE quote_field(_, _)
RECURSIVE struct_entries(_, _, _, _)
RECURSIVE variant_entries(_, _, _, _)
RECURSIVE tuple_values(_, _, _, _)
RECURSIVE enum_variants(_, _, _, _, _, _, _)
RECURSIVE body_parse_struct(_, _)
RECURSIVE body_parse_enum(_, _)

\* quote_field: the field type's info, with the field's docs if it has any
quote_field(rs, f) ==
    LET t == ApiBodyOf(rs, f.ty)
    IN  IF ~t.ok THEN t
        ELSE Derived(<<>>,
                     IF f.attrs.docs # ""
                     THEN [t.info EXCEPT !.description = f.attrs.docs]
                     ELSE t.info,
                     <<>>)

\* the entries of parse_struct's Fields::Named, run in declaration order
\* over the map m; the result carries the map as an Object
struct_entries(rs, fields, i, m) ==
    IF i > Len(fields) THEN Derived(<<>>, ApiBodyInfo("", Object(m)), <<>>)
    ELSE LET f == fields[i]
         IN  IF f.attrs.flatten
             THEN LET s == ApiBodyOf(rs, f.ty)
                  IN  IF ~s.ok THEN s
                      ELSE IF s.struct_info = <<>>
                      THEN NotDerived("the trait ApiBodyStruct is not implemented")
                      ELSE struct_entries(rs, fields, i + 1,
                                          InsertAll(m, into_iter(rs, s.struct_info[1].struc)))
             ELSE LET q == quote_field(rs, f)
                  IN  IF ~q.ok THEN q
                      ELSE struct_entries(rs, fields, i + 1,
                                          HashMapInsert(m, f.name, q.info))

\* the entries of parse_enum's Fields::Named: every field by quote_field
variant_entries(rs, fields, i, m) ==
    IF i > Len(fields) THEN Derived(<<>>, ApiBodyInfo("", Object(m)), <<>>)
    ELSE LET q == quote_field(rs, fields[i])
         IN  IF ~q.ok THEN q
             ELSE variant_entries(rs, fields, i + 1,
                                  HashMapInsert(m, fields[i].name, q.info))

\* parse_struct's Fields::Unnamed: vec![ #( #types ),* ]
tuple_values(rs, fields, i, acc) ==
    IF i > Len(fields) THEN Derived(<<>>, ApiBodyInfo("", TupleOf(acc)), <<>>)
    ELSE LET q == quote_field(rs, fields[i])
         IN  IF ~q.ok THEN q
             ELSE tuple_values(rs, fields, i + 1, Append(acc, q.info))

\* a transparent record that keeps the inner description
single_description_inner(t, d) == t

\* parse_struct's Fields::Single: if d.len() > 0 { t.description = d }
single_description(t, d) ==
    IF d # "" THEN [t EXCEPT !.description = d] ELSE t

\* body::parse_struct, and what the impl it generates evaluates to
body_parse_struct(rs, s) ==
    IF body_attrs_parse(s.attrs) # "" THEN NotDerived(body_attrs_parse(s.attrs))
    ELSE IF process_fields(s.fields) # "" THEN NotDerived(process_fields(s.fields))
    ELSE LET kind == FieldsKind(s.fields)
             docs == s.attrs.docs
         IN  IF kind = "Single"
             THEN LET q == quote_field(rs, s.fields.list[1])
                  IN  IF ~q.ok THEN q
                      ELSE Derived(<<>>, single_description(q.info, docs), <<>>)
             ELSE IF kind = "Unnamed"
             THEN LET v == tuple_values(rs, s.fields.list, 1, <<>>)
                  IN  IF ~v.ok THEN v
                      ELSE Derived(<<>>, ApiBodyInfo(docs, v.info.ty), <<>>)
             ELSE IF kind = "Named"
             THEN LET m == struct_entries(rs, s.fields.list, 1, {})
                  IN  IF ~m.ok THEN m
                      ELSE Derived(<<>>, ApiBodyInfo(docs, m.info.ty),
                                   <<ApiBodyStructInfo(docs, m.info.ty.keys)>>)
             ELSE NotDerived("TypeScript: unit structs are not supported")

\* the loop over the variants in body::parse_enum
enum_variants(rs, variants, tag, i, seen_unit, seen_nonunit, acc) ==
    IF i > Len(variants)
    THEN Derived(serde_tag_attr(seen_nonunit, tag),
                 ApiBodyInfo("", OneOf(acc)), <<>>)
    ELSE LET v == variants[i]
             kind == FieldsKind(v.fields)
             tag_entry ==
                [key |-> tag,
                 val |-> ApiBodyInfo(VARIANT_DESCRIPTION, StringLiteral(v.name))]
         IN  IF body_attrs_parse(v.attrs) # ""
             THEN NotDerived(body_attrs_parse(v.attrs))
             ELSE IF process_fields(v.fields) # ""
             THEN NotDerived(process_fields(v.fields))
             ELSE IF kind = "Unnamed"
             THEN NotDerived("Enum tuple variants are not allowed")
             ELSE IF unit_and_nonunit_mixed(kind, seen_unit, seen_nonunit)
             THEN NotDerived("Unit enum fields can't be mixed with named fields")
             ELSE IF kind = "Unit"
             THEN enum_variants(rs, variants, tag, i + 1, TRUE, seen_nonunit,
                     Append(acc, ApiBodyInfo(v.attrs.docs, StringLiteral(v.name))))
             ELSE IF kind = "Single"
             THEN LET s == ApiBodyOf(rs, v.fields.list[1].ty)
                  IN  IF ~s.ok THEN s
                      ELSE IF s.struct_info = <<>>
                      THEN NotDerived("the trait ApiBodyStruct is not implemented")
                      ELSE LET struc == HashMapInsert(s.struct_info[1].struc,
                                                      tag_entry.key, tag_entry.val)
                               t == ApiBodyInfo(v.attrs.docs, Object(struc))
                           IN  enum_variants(rs, variants, tag, i + 1, seen_unit, TRUE,
                                  Append(acc,
                                         IF t.description = ""
                                         THEN [t EXCEPT !.description =
                                                          s.struct_info[1].description]
                                         ELSE t))
             ELSE LET m == variant_entries(rs, v.fields.list, 1, {tag_entry})
                  IN  IF ~m.ok THEN m
                      ELSE enum_variants(rs, variants, tag, i + 1, seen_unit, TRUE,
                              Append(acc,
                                     ApiBodyInfo(v.attrs.docs,
                                        Object(m.info.ty.keys))))

\* body::parse_enum, and what the impl it generates evaluates to
body_parse_enum(rs, e) ==
    IF body_attrs_parse(e.attrs) # "" THEN NotDerived(body_attrs_parse(e.attrs))
    ELSE LET serde_tag == IF e.attrs.tag = <<>> THEN "kind" ELSE e.attrs.tag[1]
             vs == enum_variants(rs, e.variants, serde_tag, 1, FALSE, FALSE, <<>>)
         IN  IF ~vs.ok THEN vs
             ELSE Derived(vs.serde_tag_attr,
                          ApiBodyInfo(e.attrs.docs, vs.info.ty), <<>>)

\* the impls of ApiBody for Vec, HashMap, Option, Box and the tuples
container_info(rs, ty) ==
    LET inner == ApiBodyOf(rs, ty.fields.list[1].ty)
        boxed(t) == IF ~inner.ok THEN inner
                    ELSE Derived(<<>>, ApiBodyInfo("", BoxedType(t, inner.info)), <<>>)
    IN  IF ty.kind = "Vec" THEN boxed("ArrayOf")
        ELSE IF ty.kind = "HashMap" THEN boxed("ObjectOf")
        ELSE IF ty.kind = "Option" THEN boxed("Optional")
        ELSE IF ty.kind = "Box" THEN inner
        ELSE tuple_values(rs, ty.fields.list, 1, <<>>)

\* #[ApiBody] on the declaration of ty, and the impls that are in the crate
ApiBodyOf(rs, ty) ==
    IF ty.kind = "prim" THEN Derived(<<>>, ApiBodyInfo("", BodyType(ty.name)), <<>>)
    ELSE IF ty.kind = "struct" THEN body_parse_struct(rs, ty)
    ELSE IF ty.kind = "enum" THEN body_parse_enum(rs, ty)
    ELSE container_info(rs, ty)

\* serde's encoding of a value of variant name: under #[serde(tag = k)] an
\* object that holds k, without it the bare string of a unit variant
Json(kind, string, tag) == [kind |-> kind, string |-> string, tag |-> tag]

to_json_value(impl, name) ==
    IF impl.serde_tag_attr = <<>> THEN Json("string", name, "")
    ELSE Json("object", name, impl.serde_tag_attr[1])

(* The declarations #[ApiBody] is applied to *)

usize == PrimTy("Number")
StringTy == PrimTy("String")

NamedOf(docs, list) == BodyStruct(Docs(docs), BodyFields("Named", list))

\* struct Bar { there: bool, world: String }, each field with its docs
BodyBar ==
    NamedOf("", <<BodyField("there", Docs("There docs"), PrimTy("Boolean")),
                  BodyField("world", Docs("World docs"), StringTy)>>)

\* a record sharing the key there with Bar
BodyBar2 ==
    NamedOf("Bar2 docs", <<BodyField("there", Docs(""), usize)>>)

\* struct Other { other_prop: bool }
BodyOther ==
    NamedOf("Other comes from here",
            <<BodyField("other_prop", Docs("Other prop"), PrimTy("Boolean"))>>)

\* a record whose field names are the tags a union may use
BodyKinded ==
    NamedOf("", <<BodyField("kind", Docs(""), usize),
                  BodyField("tag", Docs(""), usize)>>)

PlainFields ==
    {BodyField(n, Docs(d), t) :
        n \in {"hello", "there"}, d \in {"", "Hello docs"}, t \in {usize, StringTy}}

FlattenFields ==
    {BodyField(n, Props("", <<>>, TRUE, FALSE), t) :
        n \in {"bar", "baz"}, t \in {BodyBar, BodyBar2, usize}}

\* the field lists of a record: no name twice
FieldLists ==
    {l \in UNION {[1..n -> PlainFields \cup FlattenFields] : n \in 1..MaxFields} :
        \A i, j \in 1..Len(l) : i # j => l[i].name # l[j].name}

NamedStructs ==
    {NamedOf(d, l) : d \in {"", "Foo docs"}, l \in FieldLists}

\* struct Foo(T): one unnamed field
WrapperOf(docs, field_docs, ty) ==
    BodyStruct(Docs(docs), BodyFields("Unnamed", <<BodyField("", Docs(field_docs), ty)>>))

\* struct Foo3 { hi: usize }
BodyFoo3(docs) == NamedOf(docs, <<BodyField("hi", Docs("Hi!"), usize)>>)

WrappedBodies == {usize, StringTy, BodyFoo3("Foo3 docs"), BodyFoo3("")}

RECURSIVE Wrappers(_)
Wrappers(n) ==
    IF n = 0 THEN WrappedBodies
    ELSE {WrapperOf(d, fd, t) :
            d \in {"", "Foo docs", "Outer docs"}, fd \in {"", "Field docs"},
            t \in Wrappers(n - 1)}

OtherStructs ==
    {BodyStruct(Docs("Foo docs"), BodyFields("Unit", <<>>)),
     BodyStruct(Docs("Foo docs"), BodyFields("Unnamed", <<>>)),
     BodyStruct(Docs("Foo docs"), BodyFields("Named", <<>>)),
     BodyStruct(Docs(""), BodyFields("Named", <<>>)),
     BodyStruct(Docs("Foo docs"),
                BodyFields("Unnamed", <<BodyField("", Docs(""), usize),
                                        BodyField("", Docs("Second"), BodyBar)>>)),
     BodyStruct(Props("Foo docs", <<>>, FALSE, TRUE),
                BodyFields("Named", <<BodyField("hello", Docs(""), usize)>>)),
     BodyStruct(Docs("Foo docs"),
                BodyFields("Named",
                           <<BodyField("hello", Props("", <<>>, FALSE, TRUE), usize)>>))}

BodyStructs ==
    NamedStructs \cup UNION {Wrappers(n) : n \in 1..MaxWrap} \cup OtherStructs

VariantNames == <<"A", "B", "C", "D", "E">>

UnitShape == BodyFields("Unit", <<>>)

NamedShape(list) == BodyFields("Named", list)

SingleShape(ty) == BodyFields("Unnamed", <<BodyField("", Docs(""), ty)>>)

\* the docs and fields a variant is declared with
VariantShapesOfBody ==
    {[docs |-> "", fields |-> UnitShape],
     [docs |-> "Unit docs", fields |-> UnitShape],
     [docs |-> "", fields |-> NamedShape(<<>>)],
     [docs |-> "Lark is larky",
      fields |-> NamedShape(<<BodyField("lark1", Docs("Lark1"), StringTy)>>)],
     [docs |-> "", fields |-> NamedShape(<<BodyField("kind", Docs(""), StringTy)>>)],
     [docs |-> "",
      fields |-> NamedShape(<<BodyField("tag", Docs("Tag docs"), usize),
                              BodyField("lark1", Docs(""), StringTy)>>)],
     [docs |-> "", fields |-> SingleShape(BodyOther)],
     [docs |-> "Wrapper docs", fields |-> SingleShape(BodyOther)],
     [docs |-> "", fields |-> SingleShape(BodyKinded)],
     [docs |-> "", fields |-> SingleShape(usize)],
     [docs |-> "",
      fields |-> BodyFields("Unnamed", <<BodyField("", Docs(""), usize),
                                         BodyField("", Docs(""), usize)>>)]}

BodyEnums ==
    {BodyEnum(Props(d, t, FALSE, FALSE),
              [i \in 1..Len(l) |->
                  BodyVariant(VariantNames[i], Docs(l[i].docs), l[i].fields)]) :
        d \in {"", "Foo docs"}, t \in {<<>>, <<"tag">>},
        l \in UNION {[1..n -> VariantShapesOfBody] : n \in 0..MaxVariants}}

\* types whose impls are in the crate, alone and inside a record
BuiltIns ==
    LET leaves == {usize, StringTy, PrimTy("Boolean"), PrimTy("Null"), PrimTy("Any"),
                   BodyBar}
        once == {ContainerTy(k, <<t>>) : k \in {"Vec", "HashMap", "Option", "Box"},
                                          t \in leaves}
                  \cup {ContainerTy("tuple", <<usize, t>>) : t \in leaves}
    IN  leaves \cup once
           \cup {ContainerTy(k, <<t>>) : k \in {"Vec", "Option", "Box"}, t \in once}
           \cup {NamedOf("Foo docs", <<BodyField("hello", Docs("Hello docs"), t),
                                       BodyField("bar", Props("", <<>>, TRUE, FALSE),
                                                 ContainerTy("Box", <<BodyBar>>))>>) :
                    t \in once}

BodyItems == BodyStructs \cup BodyEnums \cup BuiltIns

InitBody ==
    /\ ApiIdle
    /\ CapIdle
    /\ ErrIdle
    /\ \E item \in BodyItems : body_item = <<item>>
    /\ body_impl = <<>>
    /\ body_json = <<>>
    /\ body_again = <<>>

\* the compiler expands #[ApiBody] on the declaration
DeriveBody ==
    /\ body_item # <<>>
    /\ body_impl = <<>>
    /\ \E rs \in RandomStates : body_impl' = <<ApiBodyOf(rs, body_item[1])>>
    /\ UNCHANGED <<body_item, body_json, body_again, apiVars, capVars, errVars>>

\* a value of one variant of the derived union is serialized
SerializeStep ==
    /\ body_impl # <<>>
    /\ body_impl[1].ok
    /\ body_json = <<>>
    /\ body_item[1].kind = "enum"
    /\ \E i \in 1..Len(body_item[1].variants) :
          body_json' = <<to_json_value(body_impl[1], body_item[1].variants[i].name)>>
    /\ UNCHANGED <<body_item, body_impl, body_again, apiVars, capVars, errVars>>

\* T::api_body_info() is called once more; the maps it builds are new ones
InfoAgain ==
    /\ body_impl # <<>>
    /\ body_impl[1].ok
    /\ body_again = <<>>
    /\ \E rs \in RandomStates : body_again' = <<ApiBodyOf(rs, body_item[1]).info>>
    /\ UNCHANGED <<body_item, body_impl, body_json, apiVars, capVars, errVars>>

NextBody ==
    \/ DeriveBody
    \/ SerializeStep
    \/ InfoAgain

SpecBody == InitBody /\ [][NextBody]_vars

-----------------------------------------------------------------------------
(* Properties *)

S_api == <<"/", "a", "p", "i">>
S_echo == <<"e", "c", "h", "o">>
S_api_echo == <<"/", "a", "p", "i", "/", "e", "c", "h", "o">>
S_other_echo == <<"/", "o", "t", "h", "e", "r", "/", "e", "c", "h", "o">>

IsPrefix(a, b) == Len(a) <= Len(b) /\ SubSeq(b, 1, Len(a)) = a

Last(s) == s[Len(s)]

Ran(s) == {s[i] : i \in 1..Len(s)}

RECURSIVE SumSeq(_)
SumSeq(s) == IF s = <<>> THEN 0 ELSE Head(s) + SumSeq(Tail(s))

\* the steps of the normalized handler of h, in their order
StepsOf(h) ==
    h.params \o (IF h.body # "None" THEN <<"body">> ELSE <<>>)
             \o <<"fn", "response">>

\* the request path starts with the base path
UnderBase(rq) ==
    StartsWith(TrimStartMatches(rq.path), TrimStartMatches(base_path))

\* the path that remains after the base path
PathAfterBase(rq) ==
    TrimStartMatches(SliceFrom(TrimStartMatches(rq.path),
                               Len(TrimStartMatches(base_path))))

\* entry e is stored for the method and the remaining path of rq
RouteFor(e, rq) ==
    UnderBase(rq) /\ e.key = <<rq.method, PathAfterBase(rq)>>

\* C1: the steps of a matched route run in the order p1..pn, body extractor,
\* handler function, response conversion; a failed step ends the request
\* with that step's ApiError and no later step runs.
C1_PipelineOrder ==
    \A r \in ReqIds : route[r] # <<>> =>
        LET h == HandlerOf(r)
            n == Len(log[r])
        IN  /\ IsPrefix(log[r], StepsOf(h))
            /\ pc[r] = "done" => result[r].kind \in {"Ok", "Err"}
            /\ result[r].kind = "Ok" => pc[r] = "done" /\ log[r] = StepsOf(h)
            /\ result[r].kind = "Err" =>
                  /\ pc[r] = "done"
                  /\ n > 0
                  /\ log[r][n] # "fn"
                  /\ n <= Len(h.params) =>
                        result[r].err = ParamError(h.params[n])
                  /\ (n > Len(h.params) /\ log[r][n] = "body") =>
                        result[r].err.code \in {400, 415}
                  /\ log[r][n] = "response" =>
                        result[r].err \in
                            {ApiError(404, "Not found", "Not found")}
                            \cup {IntoApiError(e) : e \in HandlerErrs}

\* the first of two parameter extractors failed: nothing else ran
C1_Witness ==
    \E r \in ReqIds :
        /\ route[r] # <<>>
        /\ Len(HandlerOf(r).params) = 2
        /\ HandlerOf(r).body # "None"
        /\ pc[r] = "done"
        /\ result[r].kind = "Err"
        /\ log[r] = <<HandlerOf(r).params[1]>>

\* C2: with base path "/api" and a POST route "echo", POST "/api/echo" is
\* dispatched to that route and "/other/echo" is answered NotFound; a path
\* that does not start with the base path is answered NotFound without a
\* route lookup and without running anything.
C2_BasePathRouting ==
    \A r \in ReqIds : req[r] # <<>> =>
        LET rq == req[r][1]
        IN  /\ ( /\ base_path = S_api
                 /\ rq.method = "POST"
                 /\ rq.path = S_api_echo
                 /\ \E e \in routes : e.key = <<"POST", S_echo>> )
               => /\ \A e \in routes :
                        e.key = <<"POST", S_echo>> => route[r] = <<e.val>>
                  /\ result[r].kind # "NotFound"
            /\ (base_path = S_api /\ rq.path = S_other_echo)
               => result[r] = [kind |-> "NotFound", req |-> <<rq>>,
                               err |-> NoError, response |-> <<>>]
            /\ ~UnderBase(rq)
               => /\ result[r].kind = "NotFound"
                  /\ lookups[r] = 0
                  /\ route[r] = <<>>
                  /\ log[r] = <<>>
                  /\ body_polls[r] = 0

\* POST "/api/echo" was dispatched under base path "/api" and answered
C2_Witness ==
    \E r \in ReqIds :
        /\ base_path = S_api
        /\ req[r] # <<>>
        /\ req[r][1].method = "POST"
        /\ req[r][1].path = S_api_echo
        /\ route[r] # <<>>
        /\ result[r].kind = "Ok"

\* C3: when no route is stored for (method, path after the base path) the
\* answer is NotFound carrying the request as it came, its body unread, and
\* nothing of any route ran; Err is returned only for a matched route whose
\* pipeline produced the error.
C3_NotFoundKeepsRequest ==
    \A r \in ReqIds : req[r] # <<>> =>
        LET rq == req[r][1]
        IN  /\ (~ \E e \in routes : RouteFor(e, rq))
               => /\ pc[r] = "done"
                  /\ result[r].kind = "NotFound"
            /\ result[r].kind = "NotFound"
               => /\ result[r].req = <<rq>>
                  /\ result[r].req[1].body = rq.body
                  /\ body_polls[r] = 0
                  /\ log[r] = <<>>
                  /\ route[r] = <<>>
            /\ result[r].kind = "Err"
               => /\ route[r] # <<>>
                  /\ \E e \in routes : RouteFor(e, rq) /\ route[r] = <<e.val>>
                  /\ log[r] # <<>>

\* a request with a body found no route after a lookup
C3_Witness ==
    \E r \in ReqIds :
        /\ result[r].kind = "NotFound"
        /\ lookups[r] = 1
        /\ req[r][1].body.chunks # <<>>
        /\ routes # {}

\* the RouteInfo that Api::info reports for entry e
InfoFor(e) ==
    [name |-> e.key[2],
     method |-> e.key[1],
     description |-> e.val.description,
     request_type |-> e.val.resolved_handler.request_type,
     response_type |-> e.val.resolved_handler.response_type]

UniqueKeys(rs) == \A e1, e2 \in rs : e1.key = e2.key => e1 = e2

C5_InfoComplete ==
    info # <<>> =>
        LET v == info[1]
        IN  /\ Len(v) = Cardinality(routes)
            /\ \A e \in routes :
                  Cardinality({i \in 1..Len(v) : v[i] = InfoFor(e)}) = 1
            /\ \A i \in 1..Len(v) : \E e \in routes : v[i] = InfoFor(e)
            /\ \A i, j \in 1..Len(v) :
                  i < j => StrCmp(v[i].name, v[j].name) <= 0

\* info was taken of two routes with different names
C5_Witness ==
    /\ info # <<>>
    /\ Len(info[1]) = 2
    /\ info[1][1].name # info[1][2].name

\* C6: for fixed registrations Api::info returns the same list each time,
\* routes that share a path under different methods included.
C6_InfoDeterministic ==
    [][(info # <<>> /\ info' # <<>>) => info' = info]_vars

\* C7: a route is stored under the method its body extractor declares
\* (POST unless declared otherwise), a handler without a body under GET with
\* request schema Null, "No request body is expected"; a route runs only for
\* a request of its method, another method on the same path is NotFound; a
\* handler without a body never reads the request body.
C7_MethodOfRoute ==
    /\ \A e \in routes :
          LET rh == e.val.resolved_handler
              h == rh.handler
          IN  /\ e.key[1] = rh.method
              /\ h.body = "None" =>
                    /\ rh.method = "GET"
                    /\ rh.request_type =
                          [description |-> "No request body is expected",
                           ty |-> "Null"]
              /\ h.body \in {"FromJson", "FromBinary"} => rh.method = "POST"
              /\ (h.body = "PutBody" /\ h.cap = <<>>) => rh.method = "PUT"
    /\ \A r \in ReqIds : req[r] # <<>> =>
          LET rq == req[r][1]
          IN  /\ route[r] # <<>> =>
                    /\ route[r][1].resolved_handler.method = rq.method
                    /\ HandlerOf(r).body = "None" => body_polls[r] = 0
              /\ ( /\ UnderBase(rq)
                   /\ \A e \in routes :
                         e.key[2] = PathAfterBase(rq) => e.key[1] # rq.method )
                 => /\ result[r].kind = "NotFound"
                    /\ route[r] = <<>>

\* a request met a route of its path under another method only; and a GET
\* route answered a request that came with a body
C7_Witness ==
    \E r \in ReqIds :
        /\ req[r] # <<>>
        /\ UnderBase(req[r][1])
        /\ \E e \in routes : e.key[2] = PathAfterBase(req[r][1])
        /\ \A e \in routes :
              e.key[2] = PathAfterBase(req[r][1]) => e.key[1] # req[r][1].method
        /\ result[r].kind = "NotFound"

\* C8: through a CappedAsyncRead of limit MAX a stream of N <= MAX bytes is
\* read to the end with all N bytes; a stream of N > MAX bytes fails with
\* "Size limit exceeded" at the first read that takes the count past MAX,
\* before the end of the stream is waited for.
C8_CappedRead ==
    LET N == cap_src.total
    IN  /\ rte.state = "ok" =>
              /\ rte.got = N
              /\ N <= cap_max
              /\ cap_src.left = 0
        /\ N > cap_max => rte.state # "ok"
        /\ (rte.state = "err" /\ rte.err = "Size limit exceeded") =>
              /\ N > cap_max
              /\ bytes_read > cap_max
              /\ rte.got <= cap_max
        /\ bytes_read > cap_max => rte.state = "err"
        /\ cap_last.kind = "Ok" => bytes_read <= cap_max
        /\ rte.state = "reading" =>
              /\ bytes_read <= cap_max
              /\ rte.got = bytes_read
              /\ bytes_read = N - cap_src.left

\* the read failed on the limit while the stream still had bytes to give
C8_Witness ==
    /\ rte.state = "err"
    /\ rte.err = "Size limit exceeded"
    /\ cap_src.left > 0
    /\ rte.got > 0

\* the body extractor of the route of r has run
BodyRan(r) ==
    /\ route[r] # <<>>
    /\ HandlerOf(r).body # "None"
    /\ "body" \in Ran(log[r])

IsJsonType(rq) ==
    /\ rq.content_type # <<>>
    /\ to_ascii_lowercase(rq.content_type[1]) = "application/json"

\* the whole body of rq fits under the cap of h
ReadInFull(h, rq) ==
    /\ \A i \in 1..Len(rq.body.chunks) : rq.body.chunks[i] # Broken
    /\ h.cap = <<>> \/ SumSeq(rq.body.chunks) <= h.cap[1]

\* the result of r is the error (code, message) and the function did not run
FailedWith(r, code, msg) ==
    /\ result[r].kind = "Err"
    /\ result[r].err.code = code
    /\ result[r].err.internal_message = msg
    /\ result[r].err.external_message = msg
    /\ "fn" \notin Ran(log[r])

\* C9 as stated: on every route that takes a body, a request without a
\* Content-Type of application/json fails with 415, and a body that is not
\* valid JSON for the target type fails with 400 and the parser's message
\* as internal and external message; the handler function is not invoked.
C9_AnyBodyNeedsJson ==
    \A r \in ReqIds : BodyRan(r) =>
        LET rq == req[r][1]
        IN  /\ ~IsJsonType(rq) =>
                  FailedWith(r, 415, content_type_not_json_err.internal_message)
            /\ (IsJsonType(rq) /\ ~from_slice(rq.body.content).ok) =>
                  FailedWith(r, 400, from_slice(rq.body.content).err)

\* C9: on a route whose body extractor is FromJson, alone or under a size
\* cap, a request whose Content-Type is missing or is not application/json
\* in any letter case fails with 415; with that Content-Type, a body that
\* was read in full and is not valid JSON for the target type fails with
\* 400 and the parser's message as internal and external message; the
\* handler function is not invoked in either case.
C9_JsonBodyNeedsJson ==
    \A r \in ReqIds : (BodyRan(r) /\ HandlerOf(r).body = "FromJson") =>
        LET rq == req[r][1]
        IN  /\ ~IsJsonType(rq) =>
                  FailedWith(r, 415, "Content-Type must be application/json")
            /\ ( /\ IsJsonType(rq)
                 /\ ReadInFull(HandlerOf(r), rq)
                 /\ ~from_slice(rq.body.content).ok ) =>
                  FailedWith(r, 400, from_slice(rq.body.content).err)

\* a JSON route refused a request for its Content-Type
C9_Witness ==
    \E r \in ReqIds :
        /\ BodyRan(r)
        /\ HandlerOf(r).body = "FromJson"
        /\ req[r][1].content_type # <<>>
        /\ ~IsJsonType(req[r][1])
        /\ result[r].kind = "Err"
        /\ result[r].err.code = 415

\* C10: the response conversion turns an absent optional into
\* ApiError{404, "Not found", "Not found", None}, an error into its
\* converted ApiError, and a success into a response of content type
\* application/json; that 404 is returned as RouteError::Err, never as
\* RouteError::NotFound.
C10_ResponseConversion ==
    [][ \A r \in ReqIds : (pc[r] = "respond" /\ pc'[r] = "done") =>
            LET rv == ret[r]
                outcome == rv.tags[Len(rv.tags)]
            IN  /\ outcome = "None" =>
                      /\ result'[r].kind = "Err"
                      /\ result'[r].err =
                            [code |-> 404, internal_message |-> "Not found",
                             external_message |-> "Not found", value |-> "None"]
                      /\ result'[r].req = <<>>
                /\ outcome = "Err" =>
                      /\ result'[r].kind = "Err"
                      /\ result'[r].err = IntoApiError(rv.err)
                /\ outcome = "ToJson" =>
                      /\ result'[r].kind = "Ok"
                      /\ result'[r].response[1].content_type = "application/json"
                      /\ result'[r].response[1].body = to_json_vec(rv.value)
      ]_vars

\* a handler function that returned an absent optional was answered Err 404
C10_Witness ==
    \E r \in ReqIds :
        /\ pc[r] = "done"
        /\ log[r] # <<>>
        /\ Last(log[r]) = "response"
        /\ result[r].kind = "Err"
        /\ result[r].err.code = 404
        /\ result[r].err.internal_message = "Not found"

\* one of internal, external, external = ".." is written in a
Own(a) == a.internal_tok \/ a.external_tok \/ a.external_message # <<>>

\* the attributes in effect for the struct, or for variant i of the enum
InEffect(item, i) ==
    IF item.kind = "struct" THEN item.attrs
    ELSE LET v == item.variants[i].attrs
             from == IF Own(v) THEN v ELSE item.attrs
         IN  [internal_tok |-> from.internal_tok,
              external_tok |-> from.external_tok,
              external_message |-> from.external_message,
              inner_tok |-> v.inner_tok,
              code |-> IF v.code # <<>> THEN v.code ELSE item.attrs.code]

DeclaredOr500(a) == IF a.code = <<>> THEN 500 ELSE a.code[1]

\* a value of the derived type was converted
Converted == err_item # <<>> /\ err_val # <<>> /\ err_api # <<>>

\* C11: an error item whose attributes in effect contain internal or
\* external = "msg" (and that is not marked inner) converts every value to
\* ApiError{code: the declared code or 500, internal_message: the value's
\* rendering, external_message: the declared message or "Internal server
\* error", value: None}.
C11_InternalClassified ==
    Converted =>
        LET v == err_val[1]
            a == InEffect(err_item[1], v.variant)
        IN  (~a.inner_tok /\ (a.internal_tok \/ a.external_message # <<>>)) =>
                err_api[1] =
                    [code |-> DeclaredOr500(a),
                     internal_message |-> v.text,
                     external_message |->
                        IF a.external_message = <<>>
                        THEN "Internal server error"
                        ELSE a.external_message[1],
                     value |-> "None"]

\* a struct marked internal, code = 401, rendering "bad"
C11_Witness ==
    /\ Converted
    /\ err_item[1].kind = "struct"
    /\ err_item[1].attrs = Attrs(TRUE, FALSE, FALSE, <<>>, <<401>>)
    /\ err_val[1].text = "bad"
    /\ err_api[1] = [code |-> 401, internal_message |-> "bad",
                     external_message |-> "Internal server error",
                     value |-> "None"]

\* C12: an error item whose attributes in effect contain bare external and
\* no external message converts every value to an ApiError with the declared
\* code or 500 and with internal and external message both the value's
\* rendering.
C12_ExternalClassified ==
    Converted =>
        LET v == err_val[1]
            a == InEffect(err_item[1], v.variant)
        IN  ( /\ ~a.inner_tok
              /\ a.external_tok
              /\ a.external_message = <<>>
              /\ ~a.internal_tok ) =>
                /\ err_api[1].code = DeclaredOr500(a)
                /\ err_api[1].internal_message = v.text
                /\ err_api[1].external_message = v.text
                /\ err_api[1].value = "None"

\* a struct marked external with a code, rendering "bar"
C12_Witness ==
    /\ Converted
    /\ err_item[1].kind = "struct"
    /\ err_item[1].attrs = Attrs(FALSE, TRUE, FALSE, <<>>, <<401>>)
    /\ err_val[1].text = "bar"
    /\ err_api[1].external_message = "bar"
    /\ err_api[1].code = 401

\* the item (or its variant i) hands its value over to the wrapped one
Delegates(item, i) ==
    LET a == InEffect(item, i)
    IN  a.inner_tok \/ ~Own(a)

VariantsOf(item) ==
    IF item.kind = "struct" THEN {0} ELSE 1..Len(item.variants)

\* C13: an item marked inner, or with none of internal / external /
\* external message in effect, is accepted only with exactly one unnamed
\* field; its ApiError is the ApiError of the wrapped value, whatever the
\* code and messages of the item and of its enum parent.
C13_DelegatesToInner ==
    /\ (err_impl # <<>> /\ err_impl[1].ok) =>
          \A i \in VariantsOf(err_item[1]) :
              Delegates(err_item[1], i) =>
                  /\ FieldsOf(err_item[1], i).shape = "Unnamed"
                  /\ FieldsOf(err_item[1], i).n = 1
    /\ Converted =>
          LET v == err_val[1]
              ty == FieldsOf(err_item[1], v.variant).ty
          IN  Delegates(err_item[1], v.variant) =>
                  /\ ty # <<>>
                  /\ err_api[1] = run_impl(derive_error(ty[1]), ty[1], v.inner[1])

\* a variant marked inner under a parent marked internal, wrapping a type
\* marked external whose value renders "bar": 500, "bar", "bar"
C13_Witness ==
    /\ Converted
    /\ err_item[1].kind = "enum"
    /\ err_item[1].attrs = Attrs(TRUE, FALSE, FALSE, <<>>, <<>>)
    /\ err_item[1].variants[err_val[1].variant] =
          ErrVariant(Attrs(FALSE, FALSE, TRUE, <<>>, <<>>), Wrapping(Bar))
    /\ err_val[1].text = "bad"
    /\ err_val[1].inner[1].text = "bar"
    /\ err_api[1] = [code |-> 500, internal_message |-> "bar",
                     external_message |-> "bar", value |-> "None"]

\* the external message that attributes a give a value rendering text
MessageBy(a, text) ==
    IF a.internal_tok \/ a.external_message # <<>>
    THEN IF a.external_message = <<>> THEN "Internal server error"
         ELSE a.external_message[1]
    ELSE text

\* C14: in an enum a variant that writes none of internal / external /
\* external message takes all three from the parent, a variant that writes
\* any of them takes none of the parent's; a variant without a code takes
\* the parent's code, or 500 when the parent has none.
C14_VariantInheritance ==
    (Converted /\ err_item[1].kind = "enum") =>
        LET v == err_val[1]
            own == err_item[1].variants[v.variant].attrs
            parent == err_item[1].attrs
        IN  ~own.inner_tok =>
                /\ Own(own) =>
                      err_api[1].external_message = MessageBy(own, v.text)
                /\ (~Own(own) /\ Own(parent)) =>
                      err_api[1].external_message = MessageBy(parent, v.text)
                /\ (Own(own) \/ Own(parent)) =>
                      /\ err_api[1].internal_message = v.text
                      /\ err_api[1].code =
                            IF own.code # <<>> THEN own.code[1]
                            ELSE IF parent.code # <<>> THEN parent.code[1]
                            ELSE 500

\* a variant marked external under a parent marked internal with a code
C14_Witness ==
    /\ Converted
    /\ err_item[1].kind = "enum"
    /\ err_item[1].attrs = Attrs(TRUE, FALSE, FALSE, <<"Hidden">>, <<404>>)
    /\ err_item[1].variants[err_val[1].variant].attrs =
          Attrs(FALSE, TRUE, FALSE, <<>>, <<>>)
    /\ err_api[1].external_message = err_val[1].text
    /\ err_api[1].code = 404

\* the attributes written on one item cannot stand together
BadAttrs(a) ==
    \/ a.external_tok /\ a.external_message # <<>>
    \/ a.internal_tok /\ a.external_tok
    \/ a.inner_tok /\ ( a.internal_tok \/ a.external_tok
                        \/ a.external_message # <<>> \/ a.code # <<>> )

Malformed(item) ==
    \/ BadAttrs(item.attrs)
    \/ /\ item.kind = "enum"
       /\ \/ item.attrs.inner_tok
          \/ item.variants = <<>>
          \/ \E i \in 1..Len(item.variants) : BadAttrs(item.variants[i].attrs)

\* C15: external with external = "msg", internal with external, inner with
\* any other attribute, inner at the top of an enum, and an enum without
\* variants are each rejected when the type is derived, and no value of such
\* a type is ever converted.
C15_MalformedRejected ==
    /\ (err_impl # <<>> /\ Malformed(err_item[1])) => ~err_impl[1].ok
    /\ err_api # <<>> => (err_impl # <<>> /\ err_impl[1].ok /\ ~Malformed(err_item[1]))

\* the derive was expanded on an enum without variants and on nothing else
\* wrong, and gave an error
C15_Witness ==
    /\ err_impl # <<>>
    /\ ~err_impl[1].ok
    /\ err_item[1].kind = "enum"
    /\ err_item[1].variants = <<>>
    /\ ~BadAttrs(err_item[1].attrs)
    /\ ~err_item[1].attrs.inner_tok

\* one state of the hasher, for what does not depend on it
AnyState == CHOOSE rs \in RandomStates : TRUE

\* what the macro made of the declaration, once it has run
Expanded == body_item # <<>> /\ body_impl # <<>>

IsUnitVariant(v) == v.fields.shape = "Unit"

SeveralUnnamed(v) == v.fields.shape = "Unnamed" /\ Len(v.fields.list) > 1

VariantsOfBody(item) == {item.variants[i] : i \in 1..Len(item.variants)}

\* C16: a union with a unit variant and a variant with fields, in either
\* order, is not derived, and neither is a union with a variant of several
\* unnamed fields
C16_MixedUnionRejected ==
    (Expanded /\ body_item[1].kind = "enum") =>
        LET vs == VariantsOfBody(body_item[1])
        IN  (\/ (\E v \in vs : IsUnitVariant(v)) /\ (\E v \in vs : ~IsUnitVariant(v))
             \/ \E v \in vs : SeveralUnnamed(v))
            => ~body_impl[1].ok

C16_Witness ==
    /\ Expanded
    /\ body_item[1].kind = "enum"
    /\ Len(body_item[1].variants) = 2
    /\ IsUnitVariant(body_item[1].variants[1])
    /\ body_item[1].variants[2].fields.shape = "Named"
    /\ ~body_impl[1].ok
    /\ body_impl[1].err = "Unit enum fields can't be mixed with named fields"

AllUnit(item) ==
    \A i \in 1..Len(item.variants) : IsUnitVariant(item.variants[i])

\* C17: a union of unit variants only derives OneOf of the variants' string
\* literals in declaration order, each with the variant's description, the
\* whole with the union's description; no tag is written and a value
\* serializes to the bare string of its variant's name
C17_UnitUnion ==
    (Expanded /\ body_item[1].kind = "enum" /\ AllUnit(body_item[1])) =>
        LET e == body_item[1]
            out == body_impl[1]
        IN  /\ out.ok
            /\ out.info.description = e.attrs.docs
            /\ out.info.ty.type = "OneOf"
            /\ Len(out.info.ty.values) = Len(e.variants)
            /\ \A i \in 1..Len(e.variants) :
                  /\ out.info.ty.values[i].description = e.variants[i].attrs.docs
                  /\ out.info.ty.values[i].ty.type = "StringLiteral"
                  /\ out.info.ty.values[i].ty.literal = e.variants[i].name
                  /\ out.info.ty.values[i].ty.keys = {}
            /\ out.serde_tag_attr = <<>>
            /\ body_json # <<>> =>
                  /\ body_json[1].kind = "string"
                  /\ \E i \in 1..Len(e.variants) :
                        body_json[1].string = e.variants[i].name

C17_Witness ==
    /\ Expanded
    /\ body_item[1].kind = "enum"
    /\ AllUnit(body_item[1])
    /\ Len(body_item[1].variants) = 3
    /\ body_item[1].attrs.docs = "Foo docs"
    /\ body_item[1].attrs.tag = <<"tag">>
    /\ body_item[1].variants[2].attrs.docs = "Unit docs"
    /\ body_impl[1].info.ty.values[2] = ApiBodyInfo("Unit docs", StringLiteral("B"))
    /\ body_json = <<Json("string", "B", "")>>

\* the key the union is tagged with
TagKey(e) == IF e.attrs.tag = <<>> THEN "kind" ELSE e.attrs.tag[1]

\* the keys of object o are each held once, and key k holds v
Holds(o, k, v) ==
    /\ [key |-> k, val |-> v] \in o.keys
    /\ \A x, y \in o.keys : x.key = y.key => x = y

NonUnit(item) ==
    /\ Len(item.variants) > 0
    /\ \A i \in 1..Len(item.variants) : ~IsUnitVariant(item.variants[i])

\* the names a variant's Object gets from the variant itself
FieldKeys(v) ==
    IF v.fields.shape = "Named"
    THEN {v.fields.list[i].name : i \in 1..Len(v.fields.list)}
    ELSE {x.key : x \in ApiBodyOf(AnyState, v.fields.list[1].ty).info.ty.keys}

\* the Object of variant i is tagged and holds the variant's fields
Tagged(e, out, i) ==
    LET o == out.info.ty.values[i]
    IN  /\ o.ty.type = "Object"
        /\ Holds(o.ty, TagKey(e),
                 ApiBodyInfo(VARIANT_DESCRIPTION, StringLiteral(e.variants[i].name)))
        /\ {x.key : x \in o.ty.keys} = FieldKeys(e.variants[i]) \cup {TagKey(e)}

\* the description of variant i: its own, or else that of the record it wraps
DescribedByWrapped(e, out, i) ==
    LET v == e.variants[i]
    IN  (v.fields.shape = "Unnamed" /\ v.attrs.docs = "") =>
            out.info.ty.values[i].description =
                ApiBodyOf(AnyState, v.fields.list[1].ty).info.description

SourceEntries(f) ==
    IF f.attrs.flatten THEN ApiBodyOf(AnyState, f.ty).info.ty.keys
    ELSE {[key |-> f.name, val |-> quote_field(AnyState, f).info]}

\* Foo { hello: usize, #[api_body(flatten)] bar: Bar }
FlattenExample ==
    <<BodyField("hello", Docs(""), usize),
      BodyField("bar", Props("", <<>>, TRUE, FALSE), BodyBar)>>

\* C19: the Object of a record with named fields holds the names of its
\* plain fields and the keys of its flattened fields' Objects, each key with
\* the entry of the last field in declaration order that supplies it; Foo
\* with hello and a flattened Bar has exactly the keys hello, there, world
C19_FlattenMerge ==
    (Expanded /\ body_item[1].kind = "struct"
        /\ body_item[1].fields.shape = "Named" /\ body_impl[1].ok) =>
        LET l == body_item[1].fields.list
            out == body_impl[1].info
        IN  /\ out.ty.type = "Object"
            /\ out.ty.keys =
                  {x \in UNION {SourceEntries(l[i]) : i \in 1..Len(l)} :
                      \E i \in 1..Len(l) :
                          /\ x \in SourceEntries(l[i])
                          /\ \A j \in (i + 1)..Len(l) :
                                \A y \in SourceEntries(l[j]) : y.key # x.key}
            /\ l = FlattenExample =>
                  {x.key : x \in out.ty.keys} = {"hello", "there", "world"}

C19_Witness ==
    /\ Expanded
    /\ body_item[1].kind = "struct"
    /\ body_item[1].fields.shape = "Named"
    /\ Len(body_item[1].fields.list) = 2
    /\ body_item[1].fields.list[1].name = "there"
    /\ body_item[1].fields.list[1].ty = usize
    /\ body_item[1].fields.list[2] = BodyField("bar", Props("", <<>>, TRUE, FALSE), BodyBar)
    /\ body_impl[1].ok
    /\ [key |-> "there", val |-> ApiBodyInfo("There docs", BodyType("Boolean"))]
          \in body_impl[1].info.ty.keys
    /\ Cardinality(body_impl[1].info.ty.keys) = 2

IsWrapper(ty) ==
    ty.kind = "struct" /\ ty.fields.shape = "Unnamed" /\ Len(ty.fields.list) = 1

RECURSIVE Innermost(_)
\* the type under all the one-field wrappers
Innermost(ty) ==
    IF IsWrapper(ty) THEN Innermost(ty.fields.list[1].ty) ELSE ty

RECURSIVE ChainDescriptions(_)
\* the descriptions from the outside in: each wrapper's own, then its
\* field's, and last the one of the innermost type
ChainDescriptions(ty) ==
    IF IsWrapper(ty)
    THEN <<ty.attrs.docs, ty.fields.list[1].attrs.docs>>
            \o ChainDescriptions(ty.fields.list[1].ty)
    ELSE <<ty.attrs.docs>>

\* the first description of the chain that is not empty, or "" if none is
Outermost(chain) ==
    IF \A i \in 1..Len(chain) : chain[i] = "" THEN ""
    ELSE chain[CHOOSE i \in 1..Len(chain) :
                  chain[i] # "" /\ \A j \in 1..(i - 1) : chain[j] = ""]

\* C20: a record with exactly one unnamed field has the shape of the type
\* under all such wrappers, and as description the outermost non-empty one
\* of the chain: the wrapper's own, else its field's, else the inner type's
C20_Transparent ==
    (Expanded /\ IsWrapper(body_item[1]) /\ body_impl[1].ok) =>
        /\ body_impl[1].info.ty = ApiBodyOf(AnyState, Innermost(body_item[1])).info.ty
        /\ body_impl[1].info.description =
              Outermost(ChainDescriptions(body_item[1]))

C20_Witness ==
    /\ Expanded
    /\ body_impl[1].ok
    /\ body_item[1] =
          WrapperOf("", "", WrapperOf("Foo docs", "Field docs", BodyFoo3("Foo3 docs")))
    /\ body_impl[1].info.description = "Foo docs"
    /\ body_impl[1].info.ty.type = "Object"
    /\ {x.key : x \in body_impl[1].info.ty.keys} = {"hi"}

ZeroFields(item) == item.kind = "struct" /\ Len(item.fields.list) = 0

ShapeConstructors ==
    {"String", "Number", "Boolean", "Null", "Any", "ArrayOf", "TupleOf",
     "ObjectOf", "Object", "OneOf", "StringLiteral", "Optional"}

RECURSIVE ClosedShape(_)
\* node and all the nodes under it are built by the constructors
ClosedShape(node) ==
    /\ node.ty.type \in ShapeConstructors
    /\ \A x \in node.ty.keys : ClosedShape(x.val)
    /\ \A i \in 1..Len(node.ty.values) : ClosedShape(node.ty.values[i])
    /\ \A i \in 1..Len(node.ty.value) : ClosedShape(node.ty.value[i])

\* C22: a second derivation of a type's schema gives the node the first one
\* gave, description and shape throughout, and every shape in it is built by
\* one of the twelve constructors
C22_DerivationDeterministic ==
    (Expanded /\ body_again # <<>>) =>
        /\ body_again[1] = body_impl[1].info
        /\ ClosedShape(body_again[1])

C22_Witness ==
    /\ Expanded
    /\ body_again # <<>>
    /\ body_item[1].kind = "struct"
    /\ Len(body_item[1].fields.list) = 2
    /\ body_item[1].fields.list[1].ty.kind = "Vec"
    /\ body_item[1].fields.list[2].attrs.flatten
    /\ Cardinality(body_again[1].ty.keys) = 3
    /\ \E x \in body_again[1].ty.keys : x.val.ty.type = "ArrayOf"

\* two values of the derived type were converted
ConvertedTwice == err_item # <<>> /\ Len(err_val) = 2 /\ Len(err_api) = 2

\* C23: for an item whose attributes in effect are internal or
\* external = "msg", two values that differ in their rendering are
\* converted to ApiErrors with the same code, the same external message and
\* no value: what leaves the server does not depend on the rendering
C23_InternalMessageHidden ==
    (ConvertedTwice /\ err_val[1].variant = err_val[2].variant) =>
        LET a == InEffect(err_item[1], err_val[1].variant)
        IN  (~a.inner_tok /\ (a.internal_tok \/ a.external_message # <<>>)) =>
                /\ err_api[1].code = err_api[2].code
                /\ err_api[1].external_message = err_api[2].external_message
                /\ err_api[1].value = "None"
                /\ err_api[2].value = "None"

C23_Witness ==
    /\ ConvertedTwice
    /\ err_item[1].kind = "struct"
    /\ err_item[1].attrs = Attrs(TRUE, FALSE, FALSE, <<>>, <<>>)
    /\ err_val[1].text = "bad"
    /\ err_val[2].text = "bar"
    /\ err_api[1].internal_message = "bad"
    /\ err_api[2].internal_message = "bar"
    /\ err_api[1].external_message = "Internal server error"
    /\ err_api[2].external_message = "Internal server error"

\* where the pipeline of h stands after the steps in done
PositionAfter(h, done) ==
    IF Len(done) < Len(h.params) THEN "param"
    ELSE IF Len(done) = Len(h.params) /\ h.body # "None" THEN "body"
    ELSE IF Len(done) > 0 /\ Last(done) = "fn" THEN "respond"
    ELSE "call"

\* slot r stands where a request handled alone on this Api can stand: its
\* route, its steps, their order and its outcome follow from the request,
\* the routes and the choices of its own extractors and handler function
AsAlone(r) ==
    LET rq == req[r][1]
        l == handle_lookup(base_path, routes, rq)
    IN  /\ route[r] = l.hit
        /\ IF l.hit = <<>>
           THEN pc[r] = "done" /\ log[r] = <<>> /\ result[r] = NotFound(rq)
           ELSE LET h == l.hit[1].resolved_handler.handler
                    n == Len(log[r])
                    b == handler_body(h, rq)
                IN  /\ IsPrefix(log[r], StepsOf(h))
                    /\ pc[r] # "done" =>
                          result[r] = NoResult /\ pc[r] = PositionAfter(h, log[r])
                    /\ (n > 0 /\ log[r][n] = "fn") => ret[r] \in RetVals
                    /\ pc[r] = "done" =>
                          \/ /\ n \in 1..Len(h.params)
                             /\ result[r] = RouteErr(ParamError(h.params[n]))
                          \/ /\ n = Len(h.params) + 1
                             /\ log[r][n] = "body"
                             /\ ~b.ok
                             /\ result[r] = RouteErr(b.err)
                          \/ /\ log[r] = StepsOf(h)
                             /\ h.body # "None" => b.ok
                             /\ \E v \in RetVals :
                                   LET hr == handler_response(v)
                                   IN  result[r] = IF hr.ok THEN Ok(hr.response)
                                                   ELSE RouteErr(hr.err)

Slot(r) ==
    <<req[r], pc[r], route[r], log[r], args[r], ret[r], lookups[r], body_polls[r],
      result[r]>>

\* C24: Api::handle and Api::info leave the registry as it is; a step of
\* one request leaves the other request's state as it is; and in every
\* interleaving each request has the steps, in the order, and the outcome
\* it can have when it is handled alone
C24_RequestsIndependent ==
    /\ [](\A r \in ReqIds : req[r] # <<>> => AsAlone(r))
    /\ [][ /\ routes' = routes
           /\ base_path' = base_path
           /\ \A r, q \in ReqIds :
                 (r # q /\ Slot(r)' # Slot(r)) => Slot(q)' = Slot(q) ]_vars

\* both requests are under way, each between its own steps
C24_Witness ==
    /\ pc[1] = "body"
    /\ log[1] = <<"State", "User">>
    /\ pc[2] = "respond"
    /\ req[1] # req[2]
    /\ info # <<>>

\* the parameters of a handler that are wrapped in Option or Result
Wrapped(p) == ParamWrapper(p) # ""

\* the handler of slot r was resolved and its pipeline has begun
Running(r) == req[r] # <<>> /\ route[r] # <<>>

\* C25: a parameter wrapped in Option or Result never fails the pipeline.
\* Its extractor always hands over a value (Some or None for Option, Ok or
\* Err carrying the inner extractor's error for Result), the error a pipeline
\* ends with at a parameter is never that of a wrapped one, and once the
\* handler function has run, every parameter and the body extractor ran
\* before it in order and one value per parameter was handed to the function.
C25_WrappedParamNeverFails ==
    \A r \in ReqIds :
        Running(r) =>
            LET h == HandlerOf(r)
                n == Len(h.params)
            IN  /\ Len(args[r]) <= n
                /\ \A i \in 1..Len(args[r]) :
                      LET p == h.params[i]
                          v == args[r][i]
                      IN  /\ ParamWrapper(p) = "Option" =>
                                /\ v.kind \in {"Some", "None"}
                                /\ v.err = NoError
                          /\ ParamWrapper(p) = "Result" =>
                                /\ v.kind \in {"Ok", "Err"}
                                /\ v.kind = "Err" <=> v.err = ParamError(ParamInner(p))
                          /\ Wrapped(p) /\ i = Len(log[r]) => pc[r] # "done"
                /\ (Len(log[r]) > 0 /\ Len(log[r]) <= n /\ Wrapped(h.params[Len(log[r])]))
                      => /\ result[r].kind # "Err"
                         /\ Len(args[r]) = Len(log[r])
                /\ (Len(log[r]) > 0 /\ Last(log[r]) = "fn") =>
                      /\ Len(args[r]) = n
                      /\ SubSeq(log[r], 1, n) = h.params
                      /\ h.body # "None" => log[r][n + 1] = "body"
                      /\ Len(log[r]) = n + (IF h.body = "None" THEN 1 ELSE 2)

\* the handler function ran with None and Err(..) among its parameter values
C25_Witness ==
    \E r \in ReqIds :
        /\ Running(r)
        /\ Len(log[r]) > 0 /\ Last(log[r]) = "fn"
        /\ \E i, j \in 1..Len(args[r]) :
              /\ args[r][i].kind = "None"
              /\ args[r][j].kind = "Err"
              /\ args[r][j].err = ParamError("User")

\* path is base followed by "/" or by the end of the path
WholeSegments(path, base) ==
    /\ StartsWith(path, base)
    /\ Len(path) > Len(base) => path[Len(base) + 1] = "/"

\* C26: the base path is matched on whole path segments. A request is
\* dispatched to a route only if its path, after removing leading slashes,
\* is the (non-empty) base path followed by "/" or by the end of the path.
C26_BasePathWholeSegments ==
    \A r \in ReqIds :
        (req[r] # <<>> /\ route[r] # <<>> /\ TrimStartMatches(base_path) # <<>>)
            => WholeSegments(TrimStartMatches(req[r][1].path),
                             TrimStartMatches(base_path))

\* the path of a request for the route registered as P: base_path + "/" + P
RequestPathOf(P) == base_path \o <<"/">> \o P

\* C27: registration and request normalisation agree. A request of method M
\* and path base_path + "/" + P, where P was passed to Api::add with a
\* handler of method M and is still registered, is dispatched to that route.
C27_RegistrationAgrees ==
    \A r \in ReqIds : req[r] # <<>> =>
        \A P \in RegPaths, e \in routes :
            ( /\ req[r][1].path = RequestPathOf(P)
              /\ e.key = <<req[r][1].method, TrimMatches(P)>> )
                => route[r] = <<e.val>>

\* the bytes the inner source has returned in its successful reads
InnerGiven == cap_src.total - cap_src.left

\* C28: for a CappedAsyncRead of limit MAX the counter is the sum of the
\* byte counts of the successful reads of the inner source and never
\* decreases, the bytes the wrapper itself returned Ok for never exceed MAX,
\* a Pending or an error of the inner source is passed through with the
\* counter unchanged, and once the counter is above MAX every later read that
\* completes returns an error.
C28_CappedCounter ==
    /\ [](/\ bytes_read = InnerGiven
          /\ cap_given <= cap_max
          /\ cap_given <= bytes_read
          /\ bytes_read > cap_max => cap_last.kind # "Ok")
    /\ [][/\ bytes_read' >= bytes_read
          /\ InnerGiven' = InnerGiven =>
                \/ bytes_read' = bytes_read
                \/ cap_last'.kind = "Ok" /\ cap_last'.n = 0
          /\ cap_last'.kind = "Pending" => bytes_read' = bytes_read
          /\ cap_last'.err = "connection reset" =>
                /\ cap_last'.kind = "Err"
                /\ bytes_read' = bytes_read
          /\ bytes_read > cap_max => cap_last'.kind \in {"Err", "Pending"}
          /\ cap_given' - cap_given = (IF cap_last'.kind = "Ok" THEN cap_last'.n ELSE 0)
         ]_vars

\* the wrapper was read again after its counter had passed the limit, the
\* inner source still giving bytes
C28_Witness ==
    /\ cap_last.kind = "Err"
    /\ cap_last.err = "Size limit exceeded"
    /\ cap_given > 0
    /\ cap_given < cap_max
    /\ bytes_read - cap_given > MaxChunk

\* the first read of the body of rq that fails, as the model's sources fail:
\* a Broken chunk, or under a cap the chunk that takes the total above it
RECURSIVE ReadFailure(_, _, _)
ReadFailure(chunks, cap, total) ==
    IF chunks = <<>> THEN ""
    ELSE IF Head(chunks) = Broken THEN "connection reset"
    ELSE IF cap # <<>> /\ total + Head(chunks) > cap[1] THEN "Size limit exceeded"
    ELSE ReadFailure(Tail(chunks), cap, total + Head(chunks))

\* C29: on a route with a FromJson body extractor the Content-Type is
\* checked before any byte of the body is read, so a request refused with
\* 415 has had its body read 0 times; and a failed read of the body (the
\* size limit of a Capped extractor included) gives an ApiError of code 400
\* with the read error's message, whatever the JSON parser would have said,
\* and the handler function is not invoked.
C29_TypeCheckedBeforeRead ==
    \A r \in ReqIds : (BodyRan(r) /\ HandlerOf(r).body = "FromJson") =>
        LET rq == req[r][1]
            failure == ReadFailure(rq.body.chunks, HandlerOf(r).cap, 0)
        IN  /\ (result[r].kind = "Err" /\ result[r].err.code = 415) =>
                  /\ body_polls[r] = 0
                  /\ "fn" \notin Ran(log[r])
            /\ ~IsJsonType(rq) => body_polls[r] = 0
            /\ (IsJsonType(rq) /\ failure # "") =>
                  /\ FailedWith(r, 400, failure)
                  /\ body_polls[r] > 0
                  /\ pc[r] = "done"

\* a capped JSON route stopped at the size limit on a body that would not
\* have parsed either
C29_Witness ==
    \E r \in ReqIds :
        /\ BodyRan(r)
        /\ HandlerOf(r).body = "FromJson"
        /\ HandlerOf(r).cap # <<>>
        /\ ~from_slice(req[r][1].body.content).ok
        /\ result[r].kind = "Err"
        /\ result[r].err = ApiError(400, "Size limit exceeded", "Size limit exceeded")
        /\ body_polls[r] > 1

\* attributes that write a code and nothing else
OnlyCode(a) ==
    /\ a.code # <<>>
    /\ ~a.internal_tok /\ ~a.external_tok /\ ~a.inner_tok
    /\ a.external_message = <<>>

\* the struct, or variant i of the enum, declares only a code and no parent
\* gives it internal, external or an external message
CodeOnly(item, i) ==
    IF item.kind = "struct" THEN OnlyCode(item.attrs)
    ELSE /\ OnlyCode(item.variants[i].attrs)
         /\ ~item.attrs.internal_tok /\ ~item.attrs.external_tok
         /\ item.attrs.external_message = <<>>

\* the code of the ApiError that a value of the model's wrapped types gives
CodeOfWrapped(ty) == IF ty = Baz THEN 401 ELSE 500

====
